---- MODULE Spec2Model ----
(***************************************************************************)
(* Resilience layer of the beamAI search/recommendation API:               *)
(*   backend/app/core/circuit_breaker.py  CircuitBreaker                   *)
(*   backend/app/core/cache.py            CacheClient over the Redis pool  *)
(*   backend/app/core/rate_limit.py       RateLimitMiddleware              *)
(*                                                                         *)
(* Spec       threads calling CircuitBreaker.call / .state / .get_metrics  *)
(*            with an arbitrary wrapped function (thread interleaving).    *)
(* SpecSeq    the same breaker with one caller at a time.                  *)
(* SpecC2     Spec plus the scripted 30-call scenario on the default       *)
(*            configuration (failure_threshold 0.5, min_requests 10).      *)
(* SpecCache  one task using CacheClient over a Redis store that can fail  *)
(*            on any call, from before startup to after shutdown.          *)
(* SpecLimit  two tasks dispatching requests through the middleware over   *)
(*            Redis sorted sets, with the lists edited in between.         *)
(* SpecLife   startup and shutdown of main.py around cache and limiter.    *)
(* SpecIdent  identifier and limits worked out for every header set.       *)
(* SpecTrack  one caller filling the request history of a breaker that     *)
(*            tracks six requests.                                         *)
(* SpecLock   threads taking and releasing the breaker's lock.             *)
(* SpecKey    generate_search_cache_key over queries, users and sizes.     *)
(* SpecWire   the middleware as main.py registers it: the global instance  *)
(*            and the one the application stack builds.                    *)
(* SpecAbuse  one client repeating a query past the abuse threshold.       *)
(* SpecPipe   one request from dispatch through the handler's cache        *)
(*            lookup, computation and cache write.                         *)
(* SpecRecover one caller whose calls fail only while the breaker has      *)
(*            never opened.                                                *)
(* SpecLive   threads whose forwarded calls succeed after the first tick,  *)
(*            with weak fairness of every step.                            *)
(* SpecDetect _detect_abuse called request after request over two ticks.   *)
(* SpecEnum   one client going through /recommend/1, /recommend/2, ...     *)
(***************************************************************************)
EXTENDS Integers, Sequences, FiniteSets, Bags, TLC

VARIABLES
    cb,      \* the CircuitBreaker object: configuration and private fields
    now,     \* time.time(), in seconds
    pc,      \* per thread: where it stands inside call()
    fres,    \* per thread: how the wrapped function resolved
    rnow,    \* per thread: the `now` local of _record_result
    adm,     \* per thread: how its call in flight was admitted
    probes,  \* results of this HALF_OPEN episode's own probes: <<ok, failed>>
    script,  \* the scripted caller: number of its next call (0 = no script)
    ret,     \* what the step just taken returned or raised to its caller
    redis_pool,             \* cache.py _redis_pool: "none" or "up"
    cache_circuit_breaker,  \* cache.py _cache_circuit_breaker is set (it is cb)
    cache_client,           \* cache.py _cache_client and the breaker it holds
    store,                  \* the Redis keyspace: key -> stored text
    mw,        \* the RateLimitMiddleware object: redis_client, lists, logs
    rl,        \* Redis: the sorted sets `ratelimit:...` and their expiry
    rq,        \* per task: the request it is dispatching and where it stands
    decisions, \* bag of the checks made: key, time, status, how it was reached
    wiring     \* main.py: the instance get_rate_limit_middleware() returns,
               \* and what became of the middleware stack of `app`

cachevars == <<redis_pool, cache_circuit_breaker, cache_client, store>>

limitvars == <<mw, rl, rq, decisions, wiring>>

vars ==
    <<cb, now, pc, fres, rnow, adm, probes, script, ret, cachevars, limitvars>>

----------------------------------------------------------------------------
(* Bounds of the exploration *)

MaxTicks == 3         \* the clock advances this many times
TickSeconds == 30     \* by this many seconds each time
MaxHistory == 2       \* calls a CLOSED breaker takes: recorded or in flight
MaxTestCount == 12    \* half-open calls per HALF_OPEN episode
MaxCacheTestCount == 2    \* the same, for the cache client's commands
MaxChecks == 3        \* requests that reach _check_rate_limit
MaxLifeChecks == 2    \* the same, while the pool's life is watched
MaxListed == 1        \* identifiers on the whitelist or the blacklist
MaxLimitTicks == 3    \* the clock's steps while the limiter is watched
LimitTickSeconds == 20    \* the clock's step while the limiter is watched
MaxTracked == 6       \* calls made on the breaker of the tracking test
MaxLockTicks == 1     \* the clock's steps while the lock is watched
MaxLockTests == 2     \* half-open calls per episode while the lock is watched

Threads == {1, 2}

----------------------------------------------------------------------------
(* Values *)

StartTime == 1        \* time.time() when the breaker is constructed

None == -1            \* Python None in an Optional[float] field

CLOSED == "closed"
OPEN == "open"
HALF_OPEN == "half_open"
CircuitState == {CLOSED, OPEN, HALF_OPEN}

\* What a wrapped function can do: return a value, raise an Exception
\* subclass, or raise a BaseException that is not an Exception
\* (asyncio.CancelledError, KeyboardInterrupt).
Returned(v) == [kind |-> "return", val |-> v]
Raised(e) == [kind |-> "raise", val |-> e]
FuncOutcomes ==
    {Returned("success"), Raised("Exception"), Raised("CancelledError")}
IsException(o) == o.kind = "raise" /\ o.val # "CancelledError"
CircuitBreakerOpenError == Raised("CircuitBreakerOpenError")

NoRet == [op |-> "none"]

\* Python values handed to and returned by CacheClient
PyNone == [t |-> "none"]
PyBool(b) == [t |-> "bool", b |-> b]
PyInt(n) == [t |-> "int", n |-> n]
PyStr(s) == [t |-> "str", s |-> s]      \* s: the sequence of its characters
PyObject == [t |-> "object"]            \* a value json.dumps cannot encode

\* The Redis keyspace
Keys == {"k1", "k2"}
Absent == << >>                         \* no such key; no "" is ever stored

----------------------------------------------------------------------------
(* CircuitBreaker *)

\* failure_threshold and half_open_test_percentage are fractions num/den.
DefaultConfig ==
    [failure_threshold |-> <<1, 2>>, time_window_seconds |-> 60,
     open_duration_seconds |-> 30, half_open_test_percentage |-> <<1, 10>>,
     min_requests_for_threshold |-> 10]

SmallConfig ==
    [failure_threshold |-> <<1, 2>>, time_window_seconds |-> 60,
     open_duration_seconds |-> 30, half_open_test_percentage |-> <<1, 2>>,
     min_requests_for_threshold |-> 2]

\* test_circuit_breaker_failure_tracking: CircuitBreaker("test",
\* failure_threshold=0.5, time_window_seconds=60, min_requests_for_threshold=5)
TrackingConfig ==
    [failure_threshold |-> <<1, 2>>, time_window_seconds |-> 60,
     open_duration_seconds |-> 30, half_open_test_percentage |-> <<1, 10>>,
     min_requests_for_threshold |-> 5]

NewBreaker(c) ==
    [failure_threshold |-> c.failure_threshold,
     time_window_seconds |-> c.time_window_seconds,
     open_duration_seconds |-> c.open_duration_seconds,
     half_open_test_percentage |-> c.half_open_test_percentage,
     min_requests_for_threshold |-> c.min_requests_for_threshold,
     state |-> CLOSED,
     request_history |-> << >>,
     opened_at |-> None,
     half_open_test_count |-> 0,
     half_open_success_count |-> 0,
     half_open_failure_count |-> 0,
     lock |-> None]           \* _lock: the thread that holds it, or None

\* a history that is never pruned
PopOld_Never(h, cutoff) == h

\* while history and history[0][0] < cutoff_time: popleft()
RECURSIVE PopOld(_, _)
PopOld(h, cutoff) ==
    IF h # << >> /\ h[1][1] < cutoff THEN PopOld(Tail(h), cutoff) ELSE h

Failures(h) == Cardinality({i \in 1..Len(h) : ~h[i][2]})

\* the rate compared with > where the code compares with >=
ErrorRateReached_Exceeds(h, thr) == Failures(h) * thr[2] > thr[1] * Len(h)

\* failures / total >= failure_threshold, with total > 0
ErrorRateReached(h, thr) == Failures(h) * thr[2] >= thr[1] * Len(h)

Truthy(x) == x # None /\ x # 0

\* _update_state leaving OPEN without waiting for open_duration_seconds
UpdateState_NoOpenWait(b, t) ==
    LET h == PopOld(b.request_history, t - b.time_window_seconds)
        b1 == [b EXCEPT !.request_history = h]
    IN  IF b1.state = OPEN
        THEN IF Truthy(b1.opened_at)
             THEN [b1 EXCEPT !.state = HALF_OPEN,
                             !.half_open_test_count = 0,
                             !.half_open_success_count = 0,
                             !.half_open_failure_count = 0]
             ELSE b1
        ELSE IF b1.state = HALF_OPEN
        THEN b1
        ELSE IF Len(h) >= b1.min_requests_for_threshold
                /\ ErrorRateReached(h, b1.failure_threshold)
             THEN [b1 EXCEPT !.state = OPEN, !.opened_at = t]
             ELSE b1

\* _update_state resetting the half-open counters at every read made once
\* open_duration_seconds has elapsed, also when already HALF_OPEN
UpdateState_ResetAgain(b, t) ==
    LET h == PopOld(b.request_history, t - b.time_window_seconds)
        b1 == [b EXCEPT !.request_history = h]
    IN  IF b1.state \in {OPEN, HALF_OPEN}
        THEN IF Truthy(b1.opened_at)
                /\ (t - b1.opened_at) >= b1.open_duration_seconds
             THEN [b1 EXCEPT !.state = HALF_OPEN,
                             !.half_open_test_count = 0,
                             !.half_open_success_count = 0,
                             !.half_open_failure_count = 0]
             ELSE b1
        ELSE IF Len(h) >= b1.min_requests_for_threshold
                /\ ErrorRateReached(h, b1.failure_threshold)
             THEN [b1 EXCEPT !.state = OPEN, !.opened_at = t]
             ELSE b1

\* _update_state: prune the window, then OPEN -> HALF_OPEN or CLOSED -> OPEN
UpdateState(b, t) ==
    LET h == PopOld(b.request_history, t - b.time_window_seconds)
        b1 == [b EXCEPT !.request_history = h]
    IN  IF b1.state = OPEN
        THEN IF Truthy(b1.opened_at)
                /\ (t - b1.opened_at) >= b1.open_duration_seconds
             THEN [b1 EXCEPT !.state = HALF_OPEN,
                             !.half_open_test_count = 0,
                             !.half_open_success_count = 0,
                             !.half_open_failure_count = 0]
             ELSE b1
        ELSE IF b1.state = HALF_OPEN
        THEN b1
        ELSE IF Len(h) >= b1.min_requests_for_threshold
                /\ ErrorRateReached(h, b1.failure_threshold)
             THEN [b1 EXCEPT !.state = OPEN, !.opened_at = t]
             ELSE b1

\* int(1 / half_open_test_percentage)
TestEvery(b) ==
    b.half_open_test_percentage[2] \div b.half_open_test_percentage[1]

\* _should_test_half_open answering True for every half-open call
ShouldTestHalfOpen_Always(b) ==
    IF b.state # HALF_OPEN
    THEN [b |-> b, test |-> FALSE]
    ELSE [b |-> [b EXCEPT !.half_open_test_count = @ + 1], test |-> TRUE]

\* _should_test_half_open: the breaker after the call and the answer
ShouldTestHalfOpen(b) ==
    IF b.state # HALF_OPEN
    THEN [b |-> b, test |-> FALSE]
    ELSE LET n == b.half_open_test_count + 1
         IN  [b |-> [b EXCEPT !.half_open_test_count = n],
              test |-> (n % TestEvery(b)) = 0]

HalfOpenMinTests == 5
HalfOpenMinSuccesses == 3

\* _record_result taking a success recorded while OPEN as a recovery
RecordResult_SuccessCloses(b, t, success) ==
    IF b.state = OPEN /\ success
    THEN [b EXCEPT !.state = CLOSED, !.opened_at = None]
    ELSE IF b.state = HALF_OPEN
    THEN LET s == b.half_open_success_count + (IF success THEN 1 ELSE 0)
             f == b.half_open_failure_count + (IF success THEN 0 ELSE 1)
             b1 == [b EXCEPT !.half_open_success_count = s,
                             !.half_open_failure_count = f]
         IN  IF s + f >= 5
             THEN IF s >= 3
                  THEN [b1 EXCEPT !.state = CLOSED, !.opened_at = None]
                  ELSE [b1 EXCEPT !.state = OPEN, !.opened_at = t]
             ELSE b1
    ELSE [b EXCEPT !.request_history = Append(@, <<t, success>>)]

\* _record_result re-opening the breaker without a new opened_at
RecordResult_KeepsOpenedAt(b, t, success) ==
    IF b.state = HALF_OPEN
    THEN LET s == b.half_open_success_count + (IF success THEN 1 ELSE 0)
             f == b.half_open_failure_count + (IF success THEN 0 ELSE 1)
             b1 == [b EXCEPT !.half_open_success_count = s,
                             !.half_open_failure_count = f]
         IN  IF s + f >= 5
             THEN IF s >= 3
                  THEN [b1 EXCEPT !.state = CLOSED, !.opened_at = None]
                  ELSE [b1 EXCEPT !.state = OPEN]
             ELSE b1
    ELSE [b EXCEPT !.request_history = Append(@, <<t, success>>)]

\* _record_result: count a half-open result and decide, or append to history
RecordResult(b, t, success) ==
    IF b.state = HALF_OPEN
    THEN LET s == b.half_open_success_count + (IF success THEN 1 ELSE 0)
             f == b.half_open_failure_count + (IF success THEN 0 ELSE 1)
             b1 == [b EXCEPT !.half_open_success_count = s,
                             !.half_open_failure_count = f]
         IN  IF s + f >= HalfOpenMinTests
             THEN IF s >= HalfOpenMinSuccesses
                  THEN [b1 EXCEPT !.state = CLOSED, !.opened_at = None]
                  ELSE [b1 EXCEPT !.state = OPEN, !.opened_at = t]
             ELSE b1
    ELSE [b EXCEPT !.request_history = Append(@, <<t, success>>)]

\* the dict get_metrics builds from the breaker it has just updated
MetricsOf(b, t) ==
    LET recent == SelectSeq(b.request_history,
                            LAMBDA e : e[1] >= t - b.time_window_seconds)
    IN  [state |-> b.state,
         recent_requests |-> Len(recent),
         recent_failures |-> Failures(recent),
         error_rate |-> IF Len(recent) > 0
                        THEN <<Failures(recent), Len(recent)>> ELSE <<0, 1>>,
         opened_at |-> b.opened_at,
         half_open_tests |-> b.half_open_test_count,
         half_open_successes |-> b.half_open_success_count,
         half_open_failures |-> b.half_open_failure_count]

----------------------------------------------------------------------------
(* Threads using the breaker *)

InFlight == Cardinality({p \in Threads : pc[p] \in {"exec", "record"}})

CallReturn(o, invoked, recorded) ==
    [op |-> "call", outcome |-> o, invoked |-> invoked, recorded |-> recorded]

\* Bookkeeping of the probes that belong to the current HALF_OPEN episode:
\* it starts afresh when the breaker enters HALF_OPEN.
ProbesAfter(b, b1, pr) ==
    IF b.state # HALF_OPEN /\ b1.state = HALF_OPEN THEN <<0, 0>> ELSE pr

\* CircuitBreaker.state (property), read by any thread of the process
ReadState ==
    /\ cb' = UpdateState(cb, now)
    /\ probes' = ProbesAfter(cb, cb', probes)
    /\ ret' = [op |-> "state", state |-> cb'.state]
    /\ UNCHANGED <<now, pc, fres, rnow, adm, script, cachevars, limitvars>>

\* CircuitBreaker.get_metrics
GetMetrics ==
    /\ cb' = UpdateState(cb, now)
    /\ probes' = ProbesAfter(cb, cb', probes)
    /\ ret' = [op |-> "get_metrics", metrics |-> MetricsOf(cb', now)]
    /\ UNCHANGED <<now, pc, fres, rnow, adm, script, cachevars, limitvars>>

\* call / call_async: `state = self.state` and the two tests on it
CallStart(p) ==
    /\ pc[p] = "idle"
    /\ cb' = UpdateState(cb, now)
    /\ probes' = ProbesAfter(cb, cb', probes)
    /\ IF cb'.state = OPEN
       THEN /\ pc' = pc
            /\ ret' = CallReturn(CircuitBreakerOpenError, 0, << >>)
       ELSE /\ pc' = [pc EXCEPT ![p] =
                        IF cb'.state = HALF_OPEN THEN "half_open" ELSE "exec"]
            /\ ret' = NoRet
    /\ adm' = [adm EXCEPT ![p] = None]
    /\ UNCHANGED <<now, fres, rnow, script, cachevars, limitvars>>

\* call / call_async: `if not self._should_test_half_open(): raise`
\* A call forwarded here is a probe of the episode that began at opened_at.
CallHalfOpen(p) ==
    /\ pc[p] = "half_open"
    /\ LET r == ShouldTestHalfOpen(cb)
       IN  /\ cb' = r.b
           /\ IF r.test
              THEN /\ pc' = [pc EXCEPT ![p] = "exec"]
                   /\ adm' = [adm EXCEPT ![p] = cb.opened_at]
                   /\ ret' = NoRet
              ELSE /\ pc' = [pc EXCEPT ![p] = "idle"]
                   /\ adm' = adm
                   /\ ret' = CallReturn(CircuitBreakerOpenError, 0, << >>)
    /\ UNCHANGED <<now, fres, rnow, probes, script, cachevars, limitvars>>

\* call / call_async: func(*args, **kwargs) resolves; a BaseException that
\* is not an Exception passes `except Exception` and leaves call at once;
\* otherwise _record_result starts and reads time.time().
FuncResolve(p, o) ==
    /\ pc[p] = "exec"
    /\ IF o.kind = "return" \/ IsException(o)
       THEN /\ pc' = [pc EXCEPT ![p] = "record"]
            /\ fres' = [fres EXCEPT ![p] = o]
            /\ rnow' = [rnow EXCEPT ![p] = now]
            /\ adm' = adm
            /\ ret' = NoRet
       ELSE /\ pc' = [pc EXCEPT ![p] = "idle"]
            /\ adm' = [adm EXCEPT ![p] = None]
            /\ ret' = CallReturn(o, 1, << >>)
            /\ UNCHANGED <<fres, rnow>>
    /\ UNCHANGED <<cb, now, probes, script, cachevars, limitvars>>

\* the probes of the current episode, once this result is recorded
ProbesRecorded(b, a, success, pr) ==
    IF b.state = HALF_OPEN /\ a # None /\ a = b.opened_at
    THEN IF success THEN <<pr[1] + 1, pr[2]>> ELSE <<pr[1], pr[2] + 1>>
    ELSE pr

\* _record_result under the lock, then `return result` or `raise`
CallRecord(p) ==
    /\ pc[p] = "record"
    /\ LET success == fres[p].kind = "return"
       IN  /\ cb' = RecordResult(cb, rnow[p], success)
           /\ probes' = ProbesRecorded(cb, adm[p], success, probes)
           /\ ret' = CallReturn(fres[p], 1, <<success>>)
    /\ pc' = [pc EXCEPT ![p] = "idle"]
    /\ fres' = [fres EXCEPT ![p] = NoRet]
    /\ rnow' = [rnow EXCEPT ![p] = 0]
    /\ adm' = [adm EXCEPT ![p] = None]
    /\ UNCHANGED <<now, script, cachevars, limitvars>>

\* The clock advances by whole ticks; a thread is inside the breaker's own
\* code (between two of its statements) for much less than a tick, only a
\* wrapped function can take that long.
Tick(d) ==
    /\ now + d <= StartTime + MaxTicks * TickSeconds
    /\ \A p \in Threads : pc[p] \in {"idle", "exec"}
    /\ now' = now + d
    /\ ret' = NoRet
    /\ UNCHANGED <<cb, pc, fres, rnow, adm, probes, script, cachevars, limitvars>>

----------------------------------------------------------------------------
(* One caller at a time: call() from its first line to its last *)

\* call / call_async run from start to end at time t on breaker b, the
\* wrapped function resolving as o: the breaker afterwards, what the caller
\* gets, whether the function was invoked, the results recorded, and the
\* breaker as it was when the function was invoked.
CallAsync(b, t, o) ==
    LET b1 == UpdateState(b, t)
        r == ShouldTestHalfOpen(b1)
        forwarded == b1.state = CLOSED \/ (b1.state = HALF_OPEN /\ r.test)
        b2 == IF b1.state = HALF_OPEN THEN r.b ELSE b1
        success == o.kind = "return"
    IN  IF ~forwarded
        THEN [b |-> b2, outcome |-> CircuitBreakerOpenError, invoked |-> 0,
              recorded |-> << >>, at |-> b2]
        ELSE IF o.kind = "return" \/ IsException(o)
        THEN [b |-> RecordResult(b2, t, success), outcome |-> o,
              invoked |-> 1, recorded |-> <<success>>, at |-> b2]
        ELSE [b |-> b2, outcome |-> o, invoked |-> 1,
              recorded |-> << >>, at |-> b2]

SeqCall(o) ==
    LET r == CallAsync(cb, now, o)
        pr == ProbesAfter(cb, UpdateState(cb, now), probes)
    IN  /\ \A p \in Threads : pc[p] = "idle"
        /\ cb' = r.b
        /\ probes' = IF r.recorded # << >>
                      THEN ProbesRecorded(r.at, r.at.opened_at, r.recorded[1], pr)
                      ELSE pr
        /\ ret' = CallReturn(r.outcome, r.invoked, r.recorded)
        /\ UNCHANGED <<now, pc, fres, rnow, adm, cachevars, limitvars>>

----------------------------------------------------------------------------
(* The objects of rate_limit.py as main.py builds them *)

Tasks == {1, 2}       \* the tasks that run RateLimitMiddleware.dispatch

Idle == [pc |-> "idle"]

\* RateLimitMiddleware(app, redis_client): the object after __init__; the
\* two logs hold <<ip, timestamp, item>> in the order of arrival
NewMiddleware(redis_client) ==
    [redis_client |-> redis_client, whitelist |-> {}, blacklist |-> {},
     query_history |-> << >>, product_history |-> << >>]

----------------------------------------------------------------------------
(* Spec: free threads on a small configuration *)

InitThreads ==
    /\ now = StartTime
    /\ pc = [p \in Threads |-> "idle"]
    /\ fres = [p \in Threads |-> NoRet]
    /\ rnow = [p \in Threads |-> 0]
    /\ adm = [p \in Threads |-> None]
    /\ probes = <<0, 0>>
    /\ ret = NoRet
    /\ redis_pool = "none"
    /\ cache_circuit_breaker = FALSE
    /\ cache_client = "unset"
    /\ store = [k \in Keys |-> Absent]
    /\ mw = NewMiddleware(FALSE)
    /\ rl = [z |-> {}, ttl |-> {}]
    /\ rq = [p \in Tasks |-> Idle]
    /\ decisions = EmptyBag
    /\ wiring = [global |-> NewMiddleware(FALSE), stack |-> "unbuilt"]

Init ==
    /\ InitThreads
    /\ cb = NewBreaker(SmallConfig)
    /\ script = 0

Room ==
    /\ cb.state = CLOSED => Len(cb.request_history) + InFlight < MaxHistory
    /\ cb.half_open_test_count < MaxTestCount

Free == script = 0

Next ==
    \/ Free /\ ReadState
    \/ Free /\ GetMetrics
    \/ \E p \in Threads : Free /\ Room /\ CallStart(p)
    \/ \E p \in Threads : Free /\ CallHalfOpen(p)
    \/ \E p \in Threads, o \in FuncOutcomes : Free /\ FuncResolve(p, o)
    \/ \E p \in Threads : Free /\ CallRecord(p)
    \/ Free /\ Tick(TickSeconds)

Spec == Init /\ [][Next]_vars

----------------------------------------------------------------------------
(* The scripted caller on the default configuration: calls 1-10 succeed,   *)
(* calls 11-20 hold 6 failures in any order, calls 21-30 all fail; no time *)
(* passes meanwhile.                                                       *)

ScriptCall(o) ==
    /\ script \in 1..30
    /\ script' = script + 1
    /\ LET failed == Failures(cb.request_history)
       IN  \/ script \in 1..10 /\ o.kind = "return"
           \/ /\ script \in 11..20
              /\ \/ o.kind = "return" /\ (script - 11) - failed < 4
                 \/ IsException(o) /\ failed < 6
           \/ script \in 21..30 /\ IsException(o)
    /\ SeqCall(o)

InitC2 ==
    /\ InitThreads
    /\ \/ cb = NewBreaker(SmallConfig) /\ script = 0
       \/ cb = NewBreaker(DefaultConfig) /\ script = 1

----------------------------------------------------------------------------
(* SpecC2: Spec, or the scripted caller *)

NextC2 ==
    \/ Next
    \/ \E o \in FuncOutcomes : ScriptCall(o)

SpecC2 == InitC2 /\ [][NextC2]_vars

----------------------------------------------------------------------------
(* SpecSeq: one caller at a time, on the small configuration from the      *)
(* start or on the default configuration once the script has run          *)

Sequential == script \in {0, 31}

NextSeq ==
    \/ Sequential /\ ReadState
    \/ Sequential /\ GetMetrics
    \/ \E o \in FuncOutcomes :
         Sequential /\ Room /\ SeqCall(o) /\ script' = script
    \/ Sequential /\ Tick(TickSeconds)
    \/ \E o \in FuncOutcomes : ScriptCall(o)

SpecSeq == InitC2 /\ [][NextSeq]_vars

----------------------------------------------------------------------------
(* SpecTrack: the breaker of test_circuit_breaker_failure_tracking, called *)
(* by one caller with any outcomes, its state read at any moment; as in    *)
(* the test, the calls follow each other within one clock reading          *)

InitTrack ==
    /\ InitThreads
    /\ cb = NewBreaker(TrackingConfig)
    /\ script = 0

NextTrack ==
    \/ ReadState
    \/ \E o \in FuncOutcomes :
         /\ Len(cb.request_history) < MaxTracked
         /\ SeqCall(o)
         /\ script' = script

SpecTrack == InitTrack /\ [][NextTrack]_vars

----------------------------------------------------------------------------
(* SpecLock: the threads of Spec with `with self._lock:` taken and given   *)
(* back in separate steps. A thread that finds the lock taken waits: its   *)
(* step is not enabled. A wrapped function may never resolve.              *)

LockedAt == {"state_locked", "metrics_locked", "call_locked", "record_locked"}

\* `with self._lock:` entered by thread p: in the state property (read on
\* its own or as the first line of call / call_async), in get_metrics, or
\* in _record_result
LockAcquire(p, op) ==
    /\ cb.lock = None
    /\ pc[p] = IF op = "record" THEN "record" ELSE "idle"
    /\ cb' = [cb EXCEPT !.lock = p]
    /\ pc' = [pc EXCEPT ![p] =
                 IF op = "record" THEN "record_locked"
                 ELSE IF op = "call" THEN "call_locked"
                 ELSE IF op = "metrics" THEN "metrics_locked"
                 ELSE "state_locked"]
    /\ ret' = NoRet
    /\ UNCHANGED <<now, fres, rnow, adm, probes, script, cachevars, limitvars>>

\* a call that holds the lock from its state read to its last line
LockedRead_HoldsThroughCall(p) ==
    LET b1 == UpdateState(cb, now)
        b2 == [b1 EXCEPT !.lock = None]
    IN  /\ pc[p] \in {"state_locked", "metrics_locked", "call_locked"}
        /\ cb.lock = p
        /\ probes' = ProbesAfter(cb, b1, probes)
        /\ IF pc[p] = "state_locked"
           THEN /\ cb' = b2
                /\ pc' = [pc EXCEPT ![p] = "idle"]
                /\ ret' = [op |-> "state", state |-> b1.state]
                /\ adm' = adm
           ELSE IF pc[p] = "metrics_locked"
           THEN /\ cb' = b2
                /\ pc' = [pc EXCEPT ![p] = "idle"]
                /\ ret' = [op |-> "get_metrics", metrics |-> MetricsOf(b1, now)]
                /\ adm' = adm
           ELSE /\ cb' = IF b1.state = OPEN THEN b2 ELSE b1
                /\ pc' = [pc EXCEPT ![p] =
                             IF b1.state = OPEN THEN "idle"
                             ELSE IF b1.state = HALF_OPEN THEN "half_open"
                             ELSE "exec"]
                /\ ret' = IF b1.state = OPEN
                          THEN CallReturn(CircuitBreakerOpenError, 0, << >>)
                          ELSE NoRet
                /\ adm' = [adm EXCEPT ![p] = None]
        /\ UNCHANGED <<now, fres, rnow, script, cachevars, limitvars>>

\* the body of `with self._lock:` in the state property and in
\* get_metrics: _update_state, the value returned, and the lock given back;
\* in call / call_async the two tests on the state follow
LockedRead(p) ==
    LET b1 == UpdateState(cb, now)
        b2 == [b1 EXCEPT !.lock = None]
    IN  /\ pc[p] \in {"state_locked", "metrics_locked", "call_locked"}
        /\ cb.lock = p
        /\ cb' = b2
        /\ probes' = ProbesAfter(cb, b1, probes)
        /\ IF pc[p] = "state_locked"
           THEN /\ pc' = [pc EXCEPT ![p] = "idle"]
                /\ ret' = [op |-> "state", state |-> b1.state]
                /\ adm' = adm
           ELSE IF pc[p] = "metrics_locked"
           THEN /\ pc' = [pc EXCEPT ![p] = "idle"]
                /\ ret' = [op |-> "get_metrics", metrics |-> MetricsOf(b1, now)]
                /\ adm' = adm
           ELSE /\ pc' = [pc EXCEPT ![p] =
                             IF b1.state = OPEN THEN "idle"
                             ELSE IF b1.state = HALF_OPEN THEN "half_open"
                             ELSE "exec"]
                /\ ret' = IF b1.state = OPEN
                          THEN CallReturn(CircuitBreakerOpenError, 0, << >>)
                          ELSE NoRet
                /\ adm' = [adm EXCEPT ![p] = None]
        /\ UNCHANGED <<now, fres, rnow, script, cachevars, limitvars>>

\* the body of `with self._lock:` in _record_result, and the lock given
\* back; then `return result` or `raise`
LockedRecord(p) ==
    /\ pc[p] = "record_locked"
    /\ cb.lock = p
    /\ LET success == fres[p].kind = "return"
       IN  /\ cb' = [RecordResult(cb, rnow[p], success) EXCEPT !.lock = None]
           /\ probes' = ProbesRecorded(cb, adm[p], success, probes)
           /\ ret' = CallReturn(fres[p], 1, <<success>>)
    /\ pc' = [pc EXCEPT ![p] = "idle"]
    /\ fres' = [fres EXCEPT ![p] = NoRet]
    /\ rnow' = [rnow EXCEPT ![p] = 0]
    /\ adm' = [adm EXCEPT ![p] = None]
    /\ UNCHANGED <<now, script, cachevars, limitvars>>

NextLock ==
    \/ \E p \in Threads, op \in {"state", "metrics", "record"} :
         LockAcquire(p, op)
    \/ \E p \in Threads :
         /\ cb.state = CLOSED
               => Len(cb.request_history) + InFlight < MaxHistory
         /\ cb.half_open_test_count < MaxLockTests
         /\ LockAcquire(p, "call")
    \/ \E p \in Threads : LockedRead(p)
    \/ \E p \in Threads : CallHalfOpen(p)
    \/ \E p \in Threads, o \in FuncOutcomes : FuncResolve(p, o)
    \/ \E p \in Threads : LockedRecord(p)
    \/ now < StartTime + MaxLockTicks * TickSeconds /\ Tick(TickSeconds)

SpecLock == Init /\ [][NextLock]_vars

----------------------------------------------------------------------------
(* json.dumps / json.loads on the values and texts of the model *)

Digits == <<"0", "1", "2", "3", "4", "5", "6", "7", "8", "9">>
IsDigit(c) == \E d \in 1..10 : Digits[d] = c
DigitValue(c) == (CHOOSE d \in 1..10 : Digits[d] = c) - 1

\* str(n) for n >= 0
RECURSIVE Decimal(_)
Decimal(n) ==
    IF n < 10 THEN <<Digits[n + 1]>>
    ELSE Decimal(n \div 10) \o <<Digits[(n % 10) + 1]>>

\* int(text) of a text of digits
RECURSIVE ParseInt(_)
ParseInt(text) ==
    IF Len(text) = 1 THEN DigitValue(text[1])
    ELSE 10 * ParseInt(SubSeq(text, 1, Len(text) - 1))
         + DigitValue(text[Len(text)])

\* the JSON grammar's number without sign, fraction or exponent
IsJsonInt(text) ==
    /\ Len(text) >= 1
    /\ \A i \in 1..Len(text) : IsDigit(text[i])
    /\ Len(text) > 1 => text[1] # "0"

\* the JSON grammar's string, without escapes
IsJsonString(text) ==
    /\ Len(text) >= 2
    /\ text[1] = "\""
    /\ text[Len(text)] = "\""
    /\ \A i \in 2..(Len(text) - 1) : text[i] \notin {"\"", "\\"}

JsonNull == <<"n", "u", "l", "l">>
JsonTrue == <<"t", "r", "u", "e">>
JsonFalse == <<"f", "a", "l", "s", "e">>

\* json.dumps(value): the text, or the TypeError it raises
JsonDumps(v) ==
    IF v.t = "none" THEN Returned(JsonNull)
    ELSE IF v.t = "bool" THEN Returned(IF v.b THEN JsonTrue ELSE JsonFalse)
    ELSE IF v.t = "int" THEN Returned(Decimal(v.n))
    ELSE IF v.t = "str" THEN Returned(<<"\"">> \o v.s \o <<"\"">>)
    ELSE Raised("TypeError")

\* json.loads(text): the value, or the json.JSONDecodeError it raises
JsonLoads(text) ==
    IF text = JsonNull THEN Returned(PyNone)
    ELSE IF text = JsonTrue THEN Returned(PyBool(TRUE))
    ELSE IF text = JsonFalse THEN Returned(PyBool(FALSE))
    ELSE IF IsJsonInt(text) THEN Returned(PyInt(ParseInt(text)))
    ELSE IF IsJsonString(text)
    THEN Returned(PyStr(SubSeq(text, 2, Len(text) - 1)))
    ELSE Raised("JSONDecodeError")

----------------------------------------------------------------------------
(* CacheClient over the Redis pool *)

\* What one command sent to Redis can do: succeed, raise a RedisError
\* subclass, raise another Exception, or be cancelled while awaited.
\* "RedisError" stands for every subclass of it (TimeoutError,
\* ConnectionError, ResponseError), "Exception" for every other Exception.
StoreErrors == {"RedisError", "Exception", "CancelledError"}
StoreOutcomes == {"ok"} \cup StoreErrors

\* The values the callers of the model hand to set
Values == {PyStr(<<"a">>), PyStr(<<"7">>), PyInt(7), PyObject}

Patterns == Keys \cup {"*"}

CacheOps == {"get", "set", "delete", "exists"}

\* What a CacheClient method did: its arguments, what it returned or raised,
\* the commands it sent to Redis, the exception that ended its try body
\* ("" if none did), the state the breaker held when it was entered, and the
\* number of results the breaker recorded for it.
CacheReturn(op, key, value, outcome, calls, error, recorded) ==
    [op |-> op, key |-> key, value |-> value, outcome |-> outcome,
     calls |-> calls, error |-> error, entered |-> cb.state,
     recorded |-> recorded]

\* get_cache_client(): the global client, built on first use with the
\* breaker the module holds at that moment
ClientNow ==
    IF cache_client # "unset" THEN cache_client
    ELSE IF cache_circuit_breaker THEN "breaker" ELSE "no_breaker"

\* `if self.circuit_breaker: await self.circuit_breaker.call_async(cmd)
\*  else: await cmd`
Guarded(b, hasb, t, o) ==
    IF hasb THEN CallAsync(b, t, o)
    ELSE [b |-> b, outcome |-> o, invoked |-> 1, recorded |-> << >>, at |-> b]

\* `self.circuit_breaker and self.circuit_breaker.state.value == "open"`
StateChecked(b, hasb, t) == IF hasb THEN UpdateState(b, t) ELSE b

\* the result of a Redis command that resolves as so with reply v
Resolved(so, v) == IF so = "ok" THEN Returned(v) ELSE Raised(so)

\* `except CircuitBreakerOpenError / except RedisError / except Exception`
Caught(e) == e # "CancelledError"

\* initialize_redis: build the pool, ping, then build the breaker
InitializeRedis(ok) ==
    /\ ~cache_circuit_breaker
    /\ IF ok
       THEN /\ redis_pool' = "up"
            /\ cache_circuit_breaker' = TRUE
            /\ cb' = NewBreaker(SmallConfig)
       ELSE /\ redis_pool' = "none"
            /\ UNCHANGED <<cache_circuit_breaker, cb>>
    /\ ret' = [op |-> "initialize_redis", ok |-> ok]
    /\ UNCHANGED <<now, pc, fres, rnow, adm, probes, script, cache_client,
                   store, rl, rq, decisions>>

\* close_redis
CloseRedis ==
    /\ redis_pool' = "none"
    /\ ret' = [op |-> "close_redis"]
    /\ UNCHANGED <<cb, now, pc, fres, rnow, adm, probes, script,
                   cache_circuit_breaker, cache_client, store, limitvars>>

\* get, after `value = await ...` ended as r
GetReturn(k, r) ==
    LET loaded == JsonLoads(r.outcome.val)
    IN  IF r.outcome.kind = "raise"
        THEN CacheReturn("get", k, PyNone,
                 IF Caught(r.outcome.val) THEN Returned(PyNone) ELSE r.outcome,
                 r.invoked, r.outcome.val, Len(r.recorded))
        ELSE IF r.outcome.val = Absent
        THEN CacheReturn("get", k, PyNone, Returned(PyNone), r.invoked, "",
                         Len(r.recorded))
        ELSE IF loaded.kind = "return"
        THEN CacheReturn("get", k, PyNone, loaded, r.invoked, "",
                         Len(r.recorded))
        ELSE CacheReturn("get", k, PyNone, Returned(PyStr(r.outcome.val)),
                         r.invoked, "", Len(r.recorded))

\* CacheClient.get(key); the GET it sends resolves as so
CacheGet(k) ==
    LET hasb == ClientNow = "breaker"
        b1 == StateChecked(cb, hasb, now)
    IN  /\ IF redis_pool = "none"
           THEN /\ cb' = cb
                /\ ret' = CacheReturn("get", k, PyNone, Returned(PyNone), 0, "", 0)
           ELSE IF hasb /\ b1.state = OPEN
           THEN /\ cb' = b1
                /\ ret' = CacheReturn("get", k, PyNone, Returned(PyNone), 0, "", 0)
           ELSE \E so \in StoreOutcomes :
                  LET r == Guarded(b1, hasb, now, Resolved(so, store[k]))
                  IN  /\ cb' = r.b
                      /\ ret' = GetReturn(k, r)
        /\ cache_client' = ClientNow
        /\ UNCHANGED <<now, pc, fres, rnow, adm, probes, script, limitvars,
                       redis_pool, cache_circuit_breaker, store>>

\* `serialized = value if isinstance(value, str) else json.dumps(value)`
Serialized(v) == IF v.t = "str" THEN Returned(v.s) ELSE JsonDumps(v)

\* set, after `await ...setex(key, ttl, serialized)` ended as r
SetReturn(k, v, r) ==
    IF r.outcome.kind = "raise"
    THEN CacheReturn("set", k, v,
             IF Caught(r.outcome.val) THEN Returned(PyBool(FALSE)) ELSE r.outcome,
             r.invoked, r.outcome.val, Len(r.recorded))
    ELSE CacheReturn("set", k, v, Returned(PyBool(TRUE)), r.invoked, "",
                     Len(r.recorded))

\* CacheClient.set(key, value, ttl); the SETEX it sends resolves as so
CacheSet(k, v) ==
    LET hasb == ClientNow = "breaker"
        b1 == StateChecked(cb, hasb, now)
    IN  /\ IF redis_pool = "none"
           THEN /\ UNCHANGED <<cb, store>>
                /\ ret' = CacheReturn("set", k, v, Returned(PyBool(FALSE)), 0, "", 0)
           ELSE IF hasb /\ b1.state = OPEN
           THEN /\ cb' = b1
                /\ store' = store
                /\ ret' = CacheReturn("set", k, v, Returned(PyBool(FALSE)), 0, "", 0)
           ELSE IF Serialized(v).kind = "raise"
           THEN /\ cb' = b1
                /\ store' = store
                /\ ret' = CacheReturn("set", k, v, Returned(PyBool(FALSE)), 0,
                                      Serialized(v).val, 0)
           ELSE \E so \in StoreOutcomes :
                  LET r == Guarded(b1, hasb, now, Resolved(so, "OK"))
                  IN  /\ cb' = r.b
                      /\ store' = IF r.invoked = 1 /\ so = "ok"
                                  THEN [store EXCEPT ![k] = Serialized(v).val]
                                  ELSE store
                      /\ ret' = SetReturn(k, v, r)
        /\ cache_client' = ClientNow
        /\ UNCHANGED <<now, pc, fres, rnow, adm, probes, script, limitvars,
                       redis_pool, cache_circuit_breaker>>

\* exists catching RedisError alone
ExistsCaught_RedisError(e) == e = "RedisError"

\* `except (CircuitBreakerOpenError, RedisError)` of exists
ExistsCaught(e) == e \in {"CircuitBreakerOpenError", "RedisError"}

\* exists, after `result = await ...` ended as r
ExistsReturn(k, r) ==
    IF r.outcome.kind = "raise"
    THEN CacheReturn("exists", k, PyNone,
             IF ExistsCaught(r.outcome.val)
             THEN Returned(PyBool(FALSE)) ELSE r.outcome,
             r.invoked, r.outcome.val, Len(r.recorded))
    ELSE CacheReturn("exists", k, PyNone, Returned(PyBool(r.outcome.val # 0)),
                     r.invoked, "", Len(r.recorded))

\* CacheClient.exists(key); the EXISTS it sends resolves as so
CacheExists(k) ==
    LET hasb == ClientNow = "breaker"
    IN  /\ IF redis_pool = "none"
           THEN /\ cb' = cb
                /\ ret' = CacheReturn("exists", k, PyNone,
                                      Returned(PyBool(FALSE)), 0, "", 0)
           ELSE \E so \in StoreOutcomes :
                  LET r == Guarded(cb, hasb, now,
                               Resolved(so, IF store[k] = Absent THEN 0 ELSE 1))
                  IN  /\ cb' = r.b
                      /\ ret' = ExistsReturn(k, r)
        /\ cache_client' = ClientNow
        /\ UNCHANGED <<now, pc, fres, rnow, adm, probes, script, limitvars,
                       redis_pool, cache_circuit_breaker, store>>

\* scan_iter(match=pattern): the keys present that the pattern matches
Matches(pattern, st) ==
    {k \in Keys : st[k] # Absent /\ (pattern = "*" \/ pattern = k)}

\* the orders in which SCAN can yield a set of keys
Orders(S) ==
    {ks \in [1..Cardinality(S) -> S] : \A k \in S : \E i \in DOMAIN ks : ks[i] = k}

\* How the commands of one delete over n keys can resolve: command 0 is
\* SCAN, command i the DEL of the i-th key; all succeed, or they succeed up
\* to the first that fails, which ends the loop.
Plans(n) ==
    {[i \in 0..n |-> "ok"]}
    \cup {[i \in 0..n |-> IF i = failing THEN e ELSE "ok"] :
             failing \in 0..n, e \in StoreErrors}

\* the body of `async for key in scan_iter(...)`, key by key: the breaker,
\* the keyspace, deleted_count, the commands sent and the results the
\* breaker recorded so far; outs[i] is how the DEL of the i-th key resolves.
RECURSIVE DeleteLoop(_, _, _, _, _, _, _, _, _)
DeleteLoop(b, hasb, t, st, ks, outs, count, calls, recorded) ==
    IF ks = << >>
    THEN [b |-> b, store |-> st, count |-> count, calls |-> calls,
          error |-> "", recorded |-> recorded]
    ELSE LET r == Guarded(b, hasb, t, Resolved(outs[1], 1))
             st1 == IF r.invoked = 1 /\ outs[1] = "ok"
                    THEN [st EXCEPT ![ks[1]] = Absent] ELSE st
         IN  IF r.outcome.kind = "raise"
             THEN [b |-> r.b, store |-> st1, count |-> count,
                   calls |-> calls + r.invoked, error |-> r.outcome.val,
                   recorded |-> recorded + Len(r.recorded)]
             ELSE DeleteLoop(r.b, hasb, t, st1, Tail(ks), Tail(outs),
                             count + 1, calls + r.invoked,
                             recorded + Len(r.recorded))

\* delete, after the loop ended as d
DeleteReturn(pattern, d) ==
    IF d.error # ""
    THEN CacheReturn("delete", pattern, PyNone,
             IF Caught(d.error) THEN Returned(PyInt(0)) ELSE Raised(d.error),
             d.calls, d.error, d.recorded)
    ELSE CacheReturn("delete", pattern, PyNone, Returned(PyInt(d.count)),
                     d.calls, "", d.recorded)

\* CacheClient.delete(pattern); SCAN yields the keys in some order, and the
\* commands resolve by some plan
CacheDelete(pattern) ==
    LET hasb == ClientNow = "breaker"
        b1 == StateChecked(cb, hasb, now)
    IN  /\ IF redis_pool = "none"
           THEN /\ UNCHANGED <<cb, store>>
                /\ ret' = CacheReturn("delete", pattern, PyNone,
                                      Returned(PyInt(0)), 0, "", 0)
           ELSE IF hasb /\ b1.state = OPEN
           THEN /\ cb' = b1
                /\ store' = store
                /\ ret' = CacheReturn("delete", pattern, PyNone,
                                      Returned(PyInt(0)), 0, "", 0)
           ELSE \E ks \in Orders(Matches(pattern, store)) :
                  \E plan \in Plans(Len(ks)) :
                    LET d == IF plan[0] # "ok"
                             THEN [b |-> b1, store |-> store, count |-> 0,
                                   calls |-> 1, error |-> plan[0],
                                   recorded |-> 0]
                             ELSE DeleteLoop(b1, hasb, now, store, ks,
                                      [i \in 1..Len(ks) |-> plan[i]], 0, 1, 0)
                    IN  /\ cb' = d.b
                        /\ store' = d.store
                        /\ ret' = DeleteReturn(pattern, d)
        /\ cache_client' = ClientNow
        /\ UNCHANGED <<now, pc, fres, rnow, adm, probes, script, limitvars,
                       redis_pool, cache_circuit_breaker>>

\* CacheClient.get_circuit_breaker_metrics
GetCircuitBreakerMetrics ==
    /\ IF ClientNow = "breaker"
       THEN /\ cb' = UpdateState(cb, now)
            /\ ret' = [op |-> "get_circuit_breaker_metrics",
                       metrics |-> MetricsOf(cb', now)]
       ELSE /\ cb' = cb
            /\ ret' = [op |-> "get_circuit_breaker_metrics"]
    /\ cache_client' = ClientNow
    /\ UNCHANGED <<now, pc, fres, rnow, adm, probes, script, limitvars,
                   redis_pool, cache_circuit_breaker, store>>

\* Redis drops a key whose time to live has run out
Expire(k) ==
    /\ store[k] # Absent
    /\ store' = [store EXCEPT ![k] = Absent]
    /\ ret' = NoRet
    /\ UNCHANGED <<cb, now, pc, fres, rnow, adm, probes, script, limitvars,
                   redis_pool, cache_circuit_breaker, cache_client>>

CacheRoom ==
    /\ cb.state = CLOSED => Len(cb.request_history) < MaxHistory
    /\ cb.half_open_test_count < MaxCacheTestCount

NextCache ==
    \/ \E ok \in BOOLEAN : InitializeRedis(ok) /\ UNCHANGED <<mw, wiring>>
    \/ CloseRedis
    \/ \E k \in Keys : CacheRoom /\ CacheGet(k)
    \/ \E k \in Keys, v \in Values : CacheRoom /\ CacheSet(k, v)
    \/ \E k \in Keys : CacheRoom /\ CacheExists(k)
    \/ \E pattern \in Patterns : CacheRoom /\ CacheDelete(pattern)
    \/ GetCircuitBreakerMetrics
    \/ \E k \in Keys : Expire(k)
    \/ Tick(TickSeconds)

SpecCache == Init /\ [][NextCache]_vars

----------------------------------------------------------------------------
(* Strings of the request: sequences of characters *)

NoneStr == <<"None">>                   \* Python None where a str can stand

\* `if s:` for an Optional[str]
NonEmpty(s) == s # NoneStr /\ s # << >>

\* s.find(c) + 1: the place of the first c in s, 0 if there is none
IndexOf(s, c) ==
    IF \E i \in 1..Len(s) : s[i] = c
    THEN CHOOSE i \in 1..Len(s) : s[i] = c /\ \A j \in 1..(i - 1) : s[j] # c
    ELSE 0

\* s.strip()
Strip(s) ==
    LET ink == {i \in 1..Len(s) : s[i] # " "}
    IN  IF ink = {} THEN << >>
        ELSE SubSeq(s, CHOOSE i \in ink : \A j \in ink : i <= j,
                       CHOOSE i \in ink : \A j \in ink : i >= j)

\* s.lower(), on the letters the model's headers are written with
Lower(s) ==
    [i \in 1..Len(s) |->
        IF s[i] = "A" THEN "a" ELSE IF s[i] = "B" THEN "b"
        ELSE IF s[i] = "K" THEN "k" ELSE s[i]]

\* s.split(sep)[0]
FirstField(s, sep) ==
    IF IndexOf(s, sep) = 0 THEN s ELSE SubSeq(s, 1, IndexOf(s, sep) - 1)

Unknown == <<"u", "n", "k", "n", "o", "w", "n">>

\* get_client_ip(request)
get_client_ip(r) ==
    IF NonEmpty(r.xff) THEN Strip(FirstField(r.xff, ","))
    ELSE IF NonEmpty(r.real_ip) THEN Strip(r.real_ip)
    ELSE IF r.client # NoneStr THEN r.client
    ELSE Unknown

Schemes == {<<"b", "e", "a", "r", "e", "r">>, <<"a", "p", "i", "k", "e", "y">>}

\* a get_api_key that knows the Bearer scheme only
get_api_key_BearerOnly(r) ==
    LET sp == IndexOf(r.auth, " ")
    IN  IF ~NonEmpty(r.auth) THEN NoneStr
        ELSE IF sp = 0 THEN NoneStr
        ELSE IF Lower(SubSeq(r.auth, 1, sp - 1)) = <<"b", "e", "a", "r", "e", "r">>
        THEN SubSeq(r.auth, sp + 1, Len(r.auth))
        ELSE NoneStr

\* get_api_key(request): the key, or None
get_api_key(r) ==
    LET sp == IndexOf(r.auth, " ")
    IN  IF ~NonEmpty(r.auth) THEN NoneStr
        ELSE IF sp = 0 THEN NoneStr
        ELSE IF Lower(SubSeq(r.auth, 1, sp - 1)) \in Schemes
        THEN SubSeq(r.auth, sp + 1, Len(r.auth))
        ELSE NoneStr

\* hash_query(query): the md5 digest, taken as free of collisions
hash_query(q) == <<"md5">> \o q

----------------------------------------------------------------------------
(* The requests of the model. A path is written in pieces: a first piece   *)
(* such as "/search", then single characters.                              *)

Bearer == <<"B", "e", "a", "r", "e", "r">>
ApiKey == <<"A", "p", "i", "K", "e", "y">>

Headers(xff, real_ip, client, auth) ==
    [xff |-> xff, real_ip |-> real_ip, client |-> client, auth |-> auth]

\* what a client can send: forwarding headers, peer address, Authorization
HeaderSets ==
    {Headers(xff, real_ip, client, auth) :
        xff \in {NoneStr, << >>, <<"a">>, <<" ", "a", " ", ",", "b">>,
                 <<",", "b">>, <<" ">>},
        real_ip \in {NoneStr, << >>, <<"b", " ">>},
        client \in {NoneStr, <<"c">>},
        auth \in {NoneStr, << >>, Bearer, Bearer \o <<" ">>,
                  Bearer \o <<" ", "t">>, Bearer \o <<" ", " ", "t">>,
                  ApiKey \o <<" ", "t">>, Lower(ApiKey) \o <<" ", "t">>,
                  <<" ">> \o Bearer \o <<" ", "t">>,
                  <<"B", "a", "s", "i", "c", " ", "t">>}}

\* a client at address a, without or with an API key
PlainHeaders ==
    {Headers(NoneStr, NoneStr, <<"a">>, NoneStr),
     Headers(NoneStr, NoneStr, <<"a">>, Bearer \o <<" ", "t">>)}

Request(path, h, q) ==
    [path |-> path, xff |-> h.xff, real_ip |-> h.real_ip, client |-> h.client,
     auth |-> h.auth, q |-> q]

\* the requests sent to the middleware: /search?q=q without or with an API
\* key, and a path that is not rate limited
Requests ==
    {Request(<<"/search">>, h, <<"q">>) : h \in PlainHeaders}
    \cup {Request(<<"/products">>, Headers(NoneStr, NoneStr, <<"a">>, NoneStr),
                  NoneStr)}

\* the requests whose identifier is worked out
AllRequests ==
    {Request(path, h, NoneStr) :
        path \in {<<"/search">>, <<"/recommend", "/", "7">>}, h \in HeaderSets}

\* the identifiers an operator puts on the lists
ListIds == {<<"a">>, <<"t">>}

----------------------------------------------------------------------------
(* Redis sorted sets: members <<key, score>>, the member of a request being *)
(* str(now) with score now; ttl holds <<key, deadline>> of the keys that    *)
(* expire. A key is <<endpoint, identifier>>.                               *)

\* the keyspace at time t: keys past their deadline are gone
Live(r, t) ==
    LET dead == {x[1] : x \in {y \in r.ttl : y[2] <= t}}
    IN  [z |-> {m \in r.z : m[1] \notin dead},
         ttl |-> {x \in r.ttl : x[1] \notin dead}]

\* ZADD key {str(score): score}
ZAdd(r, key, score) == [r EXCEPT !.z = @ \cup {<<key, score>>}]

\* ZREMRANGEBYSCORE key lo hi, both ends included; an emptied key is gone
ZRemRangeByScore(r, key, lo, hi) ==
    LET z1 == {m \in r.z : ~(m[1] = key /\ lo <= m[2] /\ m[2] <= hi)}
    IN  [z |-> z1, ttl |-> {x \in r.ttl : \E m \in z1 : m[1] = x[1]}]

\* ZCARD key
ZCard(r, key) == Cardinality({m \in r.z : m[1] = key})

\* EXPIRE key seconds, sent at time t
ExpireKey(r, key, seconds, t) ==
    IF ZCard(r, key) = 0 THEN r
    ELSE [r EXCEPT !.ttl = {x \in @ : x[1] # key} \cup {<<key, t + seconds>>}]

----------------------------------------------------------------------------
(* RateLimitMiddleware *)

\* RATE_LIMITS, scaled down: the limits stand for 100 / 1000 / 50 / 500
RATE_LIMITS ==
    ("/search" :>
        [ip |-> [limit |-> 2, burst |-> 3, window |-> 60],
         api_key |-> [limit |-> 3, burst |-> 4, window |-> 60]])
    @@ ("/recommend" :>
        [ip |-> [limit |-> 2, burst |-> 2, window |-> 60],
         api_key |-> [limit |-> 3, burst |-> 3, window |-> 60]])

ABUSE_THRESHOLDS == [same_query |-> 20, sequential_enumeration |-> 5]

ExemptPaths ==
    {<<"/health">>, <<"/metrics">>, <<"/docs">>, <<"/openapi.json">>,
     <<"/redoc">>}

\* dispatch: the path, normalised; "exempt" and "unknown" are let through
Endpoint(path) ==
    IF path \in ExemptPaths THEN "exempt"
    ELSE IF path[1] = "/search" THEN "/search"
    ELSE IF path[1] = "/recommend" THEN "/recommend"
    ELSE "unknown"

\* a list that is looked up by client IP only
Listed_IpOnly(list, client_ip, api_key) == client_ip \in list

\* `client_ip in list or (api_key and api_key in list)`
Listed(list, client_ip, api_key) ==
    client_ip \in list \/ (NonEmpty(api_key) /\ api_key \in list)

\* a log that is appended to and never pruned
Logged_NoPrune(log, ip, t, item) == Append(log, <<ip, t, item>>)

\* the log of one IP once its entries of 60 s ago or older are dropped and
\* <<now, item>> is appended
Logged(log, ip, t, item) ==
    Append(SelectSeq(log, LAMBDA e : e[1] # ip \/ t - e[2] < 60),
           <<ip, t, item>>)

\* a log entry that carries the whole path
LastPart_WholePath(path) == path

\* path.split("/")[-1] of a path with at least 3 parts
LastPart(path) ==
    LET slashes == {i \in 2..Len(path) : path[i] = "/"}
        last == CHOOSE i \in slashes : \A j \in slashes : i >= j
    IN  SubSeq(path, last + 1, Len(path))

\* _detect_abuse: the middleware afterwards and the flag it returns
detect_abuse(m, client_ip, endpoint, r, t) ==
    LET qlog == Logged(m.query_history, client_ip, t, hash_query(r.q))
        plog == Logged(m.product_history, client_ip, t, LastPart(r.path))
        same == Len(SelectSeq(qlog, LAMBDA e : e[1] = client_ip
                                              /\ e[3] = hash_query(r.q)))
        ids == {plog[i][3] : i \in {j \in 1..Len(plog) : plog[j][1] = client_ip}}
    IN  IF endpoint = "/search" /\ NonEmpty(r.q)
        THEN [m |-> [m EXCEPT !.query_history = qlog],
              flagged |-> same > ABUSE_THRESHOLDS.same_query]
        ELSE IF endpoint = "/recommend"
                /\ \E i \in 2..Len(r.path) : r.path[i] = "/"
        THEN [m |-> [m EXCEPT !.product_history = plog],
              flagged |-> Cardinality(ids)
                             > ABUSE_THRESHOLDS.sequential_enumeration * 10]
        ELSE [m |-> m, flagged |-> FALSE]

\* a limiter that admits while count <= limit
CheckResult_AtMost(count, limit, window, t) ==
    [allowed |-> count <= limit,
     remaining |-> IF limit - count > 0 THEN limit - count ELSE 0,
     reset_time |-> t + window]

\* _check_rate_limit: what it returns once the four commands have answered
CheckResult(count, limit, window, t) ==
    [allowed |-> count < limit,
     remaining |-> IF limit - count > 0 THEN limit - count ELSE 0,
     reset_time |-> t + window]

\* _check_rate_limit without a client: `if not self.redis_client: return
\* True, limit, time.time() + window`
NoClient(limit, window, t) ==
    [allowed |-> TRUE, remaining |-> limit, reset_time |-> t + window]

\* a limiter that rejects when the store fails
FailOpen_Closed(limit, window, t) ==
    [allowed |-> FALSE, remaining |-> 0, reset_time |-> t + window]

\* _check_rate_limit after `except Exception`: `return True, limit,
\* time.time() + window`
FailOpen(limit, window, t) ==
    [allowed |-> TRUE, remaining |-> limit, reset_time |-> t + window]

\* what dispatch works out of request r before the lists are looked at
Task(r, stage) ==
    LET api_key == get_api_key(r)
        endpoint == Endpoint(r.path)
        limit_type == IF NonEmpty(api_key) THEN "api_key" ELSE "ip"
        limited == endpoint \in DOMAIN RATE_LIMITS
    IN  [pc |-> stage, path |-> r.path, q |-> r.q,
         client_ip |-> get_client_ip(r),
         api_key |-> api_key, endpoint |-> endpoint,
         identifier |-> IF NonEmpty(api_key) THEN api_key
                        ELSE get_client_ip(r),
         limit_type |-> limit_type,
         limit |-> IF limited THEN RATE_LIMITS[endpoint][limit_type].limit
                   ELSE 0,
         window |-> IF limited THEN RATE_LIMITS[endpoint][limit_type].window
                    ELSE 0,
         now |-> now, count |-> 0, calls |-> 0,
         blacklisted |-> Listed(mw.blacklist, get_client_ip(r), api_key),
         whitelisted |-> Listed(mw.whitelist, get_client_ip(r), api_key)]

\* The response of dispatch: status 200 is the handler's response
\* (call_next), 403 and 429 are the middleware's own; `via` names the line
\* that produced it, `calls` counts the commands sent to Redis.
DispatchReturn(tk, status, via, res, flagged) ==
    [op |-> "dispatch", status |-> status, via |-> via,
     path |-> tk.path, client_ip |-> tk.client_ip,
     api_key |-> tk.api_key, endpoint |-> tk.endpoint,
     identifier |-> tk.identifier, limit_type |-> tk.limit_type,
     limit |-> tk.limit, window |-> tk.window, t |-> tk.now,
     count |-> tk.count, calls |-> tk.calls,
     blacklisted |-> tk.blacklisted, whitelisted |-> tk.whitelisted,
     allowed |-> res.allowed, remaining |-> res.remaining,
     reset_time |-> res.reset_time,
     retry_after |-> IF status = 429 THEN res.reset_time - now ELSE None,
     flagged |-> flagged]

\* How _detect_abuse can end: its body runs to a return, or a call inside
\* its `try` raises and `except Exception` returns False: before the history
\* is touched (query_params.get, hash_query), or while the abuse found is
\* reported (record_abuse_detection, logger.warning).
AbuseOutcomes == {"ok", "raises_before_log", "raises_in_report"}

\* a dispatch that answers 429 to a request _detect_abuse flags
Finish_BlocksAbuse(p, tk, res, via) ==
    /\ IF res.allowed
       THEN \E ao \in AbuseOutcomes :
              LET d == detect_abuse(mw, tk.client_ip, tk.endpoint, tk, now)
                  flagged == ao = "ok" /\ d.flagged
              IN  /\ ao = "raises_before_log" =>
                        (tk.endpoint = "/search" /\ NonEmpty(tk.q))
                  /\ ao = "raises_in_report" => d.flagged
                  /\ mw' = IF ao = "raises_before_log" THEN mw ELSE d.m
                  /\ ret' = DispatchReturn(tk, IF flagged THEN 429 ELSE 200,
                                           via, res, flagged)
       ELSE /\ mw' = mw
            /\ ret' = DispatchReturn(tk, 429, via, res, FALSE)
    /\ decisions' = decisions (+) SetToBag({
           [endpoint |-> tk.endpoint, identifier |-> tk.identifier,
            t |-> tk.now, status |-> IF res.allowed THEN 200 ELSE 429,
            via |-> via, limit |-> tk.limit, window |-> tk.window]})
    /\ rq' = [rq EXCEPT ![p] = Idle]

\* dispatch from the result of _check_rate_limit to its return: the 429, or
\* _detect_abuse and the handler
Finish(p, tk, res, via) ==
    /\ IF res.allowed
       THEN \E ao \in AbuseOutcomes :
              LET d == detect_abuse(mw, tk.client_ip, tk.endpoint, tk, now)
              IN  /\ ao = "raises_before_log" =>
                        (tk.endpoint = "/search" /\ NonEmpty(tk.q))
                  /\ ao = "raises_in_report" => d.flagged
                  /\ mw' = IF ao = "raises_before_log" THEN mw ELSE d.m
                  /\ ret' = DispatchReturn(tk, 200, via, res,
                                           ao = "ok" /\ d.flagged)
       ELSE /\ mw' = mw
            /\ ret' = DispatchReturn(tk, 429, via, res, FALSE)
    /\ decisions' = decisions (+) SetToBag({
           [endpoint |-> tk.endpoint, identifier |-> tk.identifier,
            t |-> tk.now, status |-> IF res.allowed THEN 200 ELSE 429,
            via |-> via, limit |-> tk.limit, window |-> tk.window]})
    /\ rq' = [rq EXCEPT ![p] = Idle]

\* dispatch up to its first await: the early returns, the check without a
\* Redis client, or the ZADD sent
DispatchStart(p, r) ==
    LET tk == Task(r, "zadd")
        through == [allowed |-> TRUE, remaining |-> None, reset_time |-> None]
    IN  /\ rq[p] = Idle
        /\ IF tk.endpoint \in {"exempt", "unknown"}
           THEN /\ ret' = DispatchReturn(tk, 200, tk.endpoint, through, FALSE)
                /\ UNCHANGED <<mw, rq, decisions>>
           ELSE IF tk.blacklisted
           THEN /\ ret' = DispatchReturn(tk, 403, "blacklist",
                              [through EXCEPT !.allowed = FALSE], FALSE)
                /\ UNCHANGED <<mw, rq, decisions>>
           ELSE IF tk.whitelisted
           THEN /\ ret' = DispatchReturn(tk, 200, "whitelist", through, FALSE)
                /\ UNCHANGED <<mw, rq, decisions>>
           ELSE IF ~mw.redis_client
           THEN Finish(p, tk, NoClient(tk.limit, tk.window, now), "no_redis")
           ELSE /\ rq' = [rq EXCEPT ![p] = tk]
                /\ ret' = NoRet
                /\ UNCHANGED <<mw, decisions>>
        /\ UNCHANGED <<cb, now, pc, fres, rnow, adm, probes, script,
                       cachevars, rl, wiring>>

\* What a command of the limiter can do: answer, or raise an Exception
\* (RedisError and its subclasses, OSError, ...); a command that raises has
\* changed nothing.
LimitOutcomes == {"ok", "Exception"}

\* _check_rate_limit: the command awaited answers and the next one is sent,
\* or it raises and the check fails open; after EXPIRE dispatch goes on
StoreStep(p, so) ==
    LET tk == [rq[p] EXCEPT !.calls = @ + 1]
        r0 == Live(rl, now)
        key == <<tk.endpoint, tk.identifier>>
    IN  /\ rq[p] # Idle
        /\ \/ /\ so # "ok"
              /\ rl' = rl
              /\ Finish(p, tk, FailOpen(tk.limit, tk.window, now), "fail_open")
           \/ /\ so = "ok"
              /\ tk.pc = "zadd"
              /\ rl' = ZAdd(r0, key, tk.now)
              /\ rq' = [rq EXCEPT ![p] = [tk EXCEPT !.pc = "zremrangebyscore"]]
              /\ ret' = NoRet
              /\ UNCHANGED <<mw, decisions>>
           \/ /\ so = "ok"
              /\ tk.pc = "zremrangebyscore"
              /\ rl' = ZRemRangeByScore(r0, key, 0, tk.now - tk.window)
              /\ rq' = [rq EXCEPT ![p] = [tk EXCEPT !.pc = "zcard"]]
              /\ ret' = NoRet
              /\ UNCHANGED <<mw, decisions>>
           \/ /\ so = "ok"
              /\ tk.pc = "zcard"
              /\ rl' = r0
              /\ rq' = [rq EXCEPT ![p] = [tk EXCEPT !.pc = "expire",
                                                   !.count = ZCard(r0, key)]]
              /\ ret' = NoRet
              /\ UNCHANGED <<mw, decisions>>
           \/ /\ so = "ok"
              /\ tk.pc = "expire"
              /\ rl' = ExpireKey(r0, key, tk.window, now)
              /\ Finish(p, tk, CheckResult(tk.count, tk.limit, tk.window,
                                           tk.now), "counted")
        /\ UNCHANGED <<cb, now, pc, fres, rnow, adm, probes, script,
                       cachevars, wiring>>

\* add_to_whitelist / remove_from_whitelist / add_to_blacklist /
\* remove_from_blacklist
ListUpdate(name, id) ==
    /\ \/ name = "add_to_whitelist"
          /\ mw' = [mw EXCEPT !.whitelist = @ \cup {id}]
       \/ name = "remove_from_whitelist"
          /\ mw' = [mw EXCEPT !.whitelist = @ \ {id}]
       \/ name = "add_to_blacklist"
          /\ mw' = [mw EXCEPT !.blacklist = @ \cup {id}]
       \/ name = "remove_from_blacklist"
          /\ mw' = [mw EXCEPT !.blacklist = @ \ {id}]
    /\ mw' # mw
    /\ ret' = [op |-> name, identifier |-> id]
    /\ UNCHANGED <<cb, now, pc, fres, rnow, adm, probes, script, cachevars,
                   rl, rq, decisions, wiring>>

ListOps ==
    {"add_to_whitelist", "remove_from_whitelist", "add_to_blacklist",
     "remove_from_blacklist"}

\* startup_event: initialize_redis, then the middleware is handed the pool
startup_event(ok) ==
    /\ InitializeRedis(ok)
    /\ mw' = IF ok THEN [mw EXCEPT !.redis_client = TRUE] ELSE mw
    /\ wiring' = wiring

----------------------------------------------------------------------------
(* SpecLimit: two tasks dispatching requests through the middleware, an    *)
(* operator editing the lists, Redis failing on any command.               *)

Checks ==
    BagCardinality(decisions) + Cardinality({p \in Tasks : rq[p] # Idle})

AllIdle == \A p \in Tasks : rq[p] = Idle

\* task 2 is at work only beside task 1
TaskRoom(p) == p = 1 \/ rq[1] # Idle

NextLimit ==
    \/ \E ok \in BOOLEAN : startup_event(ok)
    \/ \E p \in Tasks, r \in Requests :
         /\ mw.redis_client       \* served once startup handed the client
         /\ Checks < MaxChecks
         /\ TaskRoom(p)
         /\ DispatchStart(p, r)
    \/ \E p \in Tasks, so \in LimitOutcomes : StoreStep(p, so)
    \/ \E name \in ListOps, id \in ListIds :
         /\ AllIdle
         /\ ListUpdate(name, id)
         /\ Cardinality(mw'.whitelist \cup mw'.blacklist) <= MaxListed
    \/ AllIdle /\ now < StartTime + MaxLimitTicks * LimitTickSeconds
          /\ Tick(LimitTickSeconds)

SpecLimit == Init /\ [][NextLimit]_vars

----------------------------------------------------------------------------
(* SpecLife: the pool from before startup to after shutdown, with the      *)
(* cache client used while there is no pool and one task sending requests  *)
(* through the middleware; startup and shutdown run while no request is    *)
(* in flight.                                                              *)

NotConfigured == redis_pool = "none"

NextLife ==
    \/ \E ok \in BOOLEAN : rq[1] = Idle /\ startup_event(ok)
    \/ rq[1] = Idle /\ CloseRedis
    \/ \E k \in Keys : NotConfigured /\ CacheGet(k)
    \/ \E k \in Keys, v \in Values : NotConfigured /\ CacheSet(k, v)
    \/ \E k \in Keys : NotConfigured /\ CacheExists(k)
    \/ \E pattern \in Patterns : NotConfigured /\ CacheDelete(pattern)
    \/ \E r \in Requests : Checks < MaxLifeChecks /\ DispatchStart(1, r)
    \/ \E so \in LimitOutcomes : StoreStep(1, so)
    \/ rq[1] = Idle /\ Tick(TickSeconds)

SpecLife == Init /\ [][NextLife]_vars

----------------------------------------------------------------------------
(* SpecIdent: the identifier and the limits dispatch works out, request by *)
(* request                                                                 *)

Identify(r) ==
    /\ ret = NoRet
    /\ ret' = [op |-> "identify", request |-> r, task |-> Task(r, "zadd")]
    /\ UNCHANGED <<cb, now, pc, fres, rnow, adm, probes, script, cachevars,
                   limitvars>>

NextIdent == \E r \in AllRequests : Identify(r)

SpecIdent == Init /\ [][NextIdent]_vars

----------------------------------------------------------------------------
(* SpecKey: the cache key of a search, call after call *)

\* a key that leaves the query out
generate_search_cache_key_NoQuery(query, user_id, k) ==
    <<"search", ":">>
    \o (IF NonEmpty(user_id) THEN user_id
        ELSE <<"a", "n", "o", "n", "y", "m", "o", "u", "s">>)
    \o <<":">> \o Decimal(k)

\* generate_search_cache_key(query, user_id, k):
\* f"search:{query_hash}:{user_part}:{k}"
generate_search_cache_key(query, user_id, k) ==
    <<"search", ":">> \o hash_query(query) \o <<":">>
    \o (IF NonEmpty(user_id) THEN user_id
        ELSE <<"a", "n", "o", "n", "y", "m", "o", "u", "s">>)
    \o <<":">> \o Decimal(k)

\* one call of generate_search_cache_key, with any arguments
SearchKeyCall(query, user_id, k) ==
    /\ ret' = [op |-> "search_key", query |-> query, user_id |-> user_id,
               k |-> k, key |-> generate_search_cache_key(query, user_id, k)]
    /\ UNCHANGED <<cb, now, pc, fres, rnow, adm, probes, script, cachevars,
                   limitvars>>

SpecKey ==
    Init /\ [][\E query \in {<< >>, <<"s">>, <<"b">>, <<"s", "b">>, <<"b", "s">>},
                  user_id \in {NoneStr, << >>, <<"u", "1">>, <<"u", ":">>},
                  k \in {0, 1, 10, 11, 100} :
                  SearchKeyCall(query, user_id, k)]_vars

----------------------------------------------------------------------------
(* SpecWire: the application as main.py wires it. Line 59 runs             *)
(* initialize_rate_limit_middleware(app) at import time: it keeps one      *)
(* RateLimitMiddleware in the module global (wiring.global) and registers  *)
(* the class a second time with app.add_middleware(RateLimitMiddleware,    *)
(* app=app, redis_client=redis_client). The framework builds the stack on  *)
(* the first event the application receives, by calling the registered     *)
(* class with the inner application and the registered arguments: the      *)
(* call either raises TypeError for the argument `app` given twice, or     *)
(* returns a second instance (here mw, the one whose dispatch runs), whose *)
(* redis_client is get_redis_client() at import time, that is None.        *)
(* startup_event and the routes of admin.py reach wiring.global only.      *)

StackOutcomes == {"instance", "TypeError"}

\* the middleware stack of `app` is built from the arguments of line 387
BuildStack(outcome) ==
    /\ wiring.stack = "unbuilt"
    /\ wiring' = [wiring EXCEPT !.stack = outcome]
    /\ mw' = NewMiddleware(FALSE)
    /\ ret' = [op |-> "build_middleware_stack", outcome |-> outcome]
    /\ UNCHANGED <<cb, now, pc, fres, rnow, adm, probes, script, cachevars,
                   rl, rq, decisions>>

\* main.py startup_event: initialize_redis, then `middleware =
\* get_rate_limit_middleware()` and `middleware.redis_client =
\* get_redis_client()`
main_startup_event(ok) ==
    /\ InitializeRedis(ok)
    /\ wiring' = IF ok THEN [wiring EXCEPT !.global.redis_client = TRUE]
                 ELSE wiring
    /\ mw' = mw

\* routes/admin.py: `middleware = get_rate_limit_middleware()`, then its
\* add_to_whitelist / remove_from_whitelist / add_to_blacklist /
\* remove_from_blacklist
AdminUpdate(name, id) ==
    LET g == wiring.global
        g1 == IF name = "add_to_whitelist"
              THEN [g EXCEPT !.whitelist = @ \cup {id}]
              ELSE IF name = "remove_from_whitelist"
              THEN [g EXCEPT !.whitelist = @ \ {id}]
              ELSE IF name = "add_to_blacklist"
              THEN [g EXCEPT !.blacklist = @ \cup {id}]
              ELSE [g EXCEPT !.blacklist = @ \ {id}]
    IN  /\ g1 # g
        /\ wiring' = [wiring EXCEPT !.global = g1]
        /\ ret' = [op |-> name, identifier |-> id]
        /\ UNCHANGED <<cb, now, pc, fres, rnow, adm, probes, script,
                       cachevars, mw, rl, rq, decisions>>

\* a request to an application whose stack could not be built: the
\* TypeError reaches the server, no dispatch runs
StackError(r) ==
    /\ wiring.stack = "TypeError"
    /\ ret' = DispatchReturn(Task(r, "zadd"), 500, "TypeError",
                   [allowed |-> FALSE, remaining |-> None,
                    reset_time |-> None], FALSE)
    /\ UNCHANGED <<cb, now, pc, fres, rnow, adm, probes, script, cachevars,
                   limitvars>>

\* the served instance is never handed a client, so that its dispatch never
\* sends a command: StoreStep has no part in SpecWire
NextWire ==
    \/ \E outcome \in StackOutcomes : BuildStack(outcome)
    \/ \E ok \in BOOLEAN : main_startup_event(ok)
    \/ \E name \in ListOps, id \in ListIds : AdminUpdate(name, id)
    \/ \E r \in Requests :
         /\ wiring.stack = "instance"
         /\ Checks < MaxChecks
         /\ DispatchStart(1, r)
    \/ \E r \in Requests : StackError(r)

SpecWire == Init /\ [][NextWire]_vars

----------------------------------------------------------------------------
(* SpecAbuse: one client repeating a query past the same_query threshold   *)
(* within a minute, on a middleware that holds no Redis client (every      *)
(* request passes the check); _detect_abuse returns, or raises inside.     *)

MaxAbuseChecks == 22

NextAbuse ==
    \E r \in Requests : Checks < MaxAbuseChecks /\ DispatchStart(1, r)

SpecAbuse == Init /\ [][NextAbuse]_vars

----------------------------------------------------------------------------
(* SpecPipe: one request at a time from the middleware to the handler of   *)
(* /search or /recommend: dispatch, then (call_next) the cache lookup of   *)
(* the handler, then on a miss the computation and the cache write. `ret`  *)
(* tells where the request stands: it is what its last step returned. The  *)
(* two routes keep their results under one key each (k1, k2).              *)

PipeRequests ==
    {Request(<<"/search">>, Headers(NoneStr, NoneStr, <<"a">>, NoneStr),
             <<"q">>),
     Request(<<"/recommend", "/", "7">>,
             Headers(NoneStr, NoneStr, <<"a">>, NoneStr), NoneStr)}

MaxPipeTicks == 1

CacheKeyOf(endpoint) == IF endpoint = "/search" THEN "k1" ELSE "k2"

\* the list of result dicts: a value json.dumps encodes
PipeResults == PyInt(7)

\* how the computation of a handler ends: results, no candidate (`return
\* []`), or an exception (HTTPException 500)
ComputeOutcomes == {"results", "zero", "error"}

\* call_next was reached: dispatch returned the handler's response
Called(r) ==
    r.op = "dispatch" /\ r.status = 200 /\ r.endpoint \in DOMAIN RATE_LIMITS

\* a handler that computes whatever the lookup returned
Missed_Always(r) == r.op = "get"

\* `if cached_results is not None: ... return results` not taken
Missed(r) == r.op = "get" /\ r.outcome = Returned(PyNone)

Computed(r) == r.op = "compute" /\ r.outcome = "results"

\* the handler has a step left to take
HandlerBusy == Called(ret) \/ Missed(ret) \/ Computed(ret)

\* get_cached_search_results / get_cached_recommend_results
HandlerLookup ==
    /\ Called(ret)
    /\ CacheGet(CacheKeyOf(ret.endpoint))

\* the handler from the miss to the results: candidates, ranking
HandlerCompute(co) ==
    /\ Missed(ret)
    /\ ret' = [op |-> "compute", key |-> ret.key, outcome |-> co]
    /\ UNCHANGED <<cb, now, pc, fres, rnow, adm, probes, script, cachevars,
                   limitvars>>

\* cache_search_results / cache_recommend_results
HandlerPopulate ==
    /\ Computed(ret)
    /\ CacheSet(ret.key, PipeResults)

NextPipe ==
    \/ \E ok \in BOOLEAN : rq[1] = Idle /\ ~HandlerBusy /\ startup_event(ok)
    \/ \E r \in PipeRequests :
         /\ ~HandlerBusy
         /\ Checks < MaxChecks
         /\ DispatchStart(1, r)
    \/ \E so \in LimitOutcomes : StoreStep(1, so)
    \/ rq[1] = Idle /\ ~HandlerBusy /\ ListUpdate("add_to_blacklist", <<"a">>)
    \/ HandlerLookup
    \/ \E co \in ComputeOutcomes : HandlerCompute(co)
    \/ HandlerPopulate
    \/ /\ rq[1] = Idle /\ ~HandlerBusy
       /\ now < StartTime + MaxPipeTicks * LimitTickSeconds
       /\ Tick(LimitTickSeconds)

SpecPipe == Init /\ [][NextPipe]_vars

----------------------------------------------------------------------------
(* SpecRecover: one caller at a time on the small configuration; the       *)
(* wrapped function fails only before the breaker has opened for the first *)
(* time, every later call that is forwarded succeeds.                      *)

\* the breaker has not left CLOSED yet: the test counter is above 0 from
\* the first call of a HALF_OPEN episode until the next episode begins
NeverOpened(b) == b.state = CLOSED /\ b.half_open_test_count = 0

NextRecover ==
    \/ ReadState
    \/ \E o \in {Returned("success"), Raised("Exception")} :
         /\ Room
         /\ IsException(o) => NeverOpened(UpdateState(cb, now))
         /\ SeqCall(o)
         /\ script' = script
    \/ Tick(TickSeconds)

SpecRecover == Init /\ [][NextRecover]_vars

----------------------------------------------------------------------------
(* SpecLive: the threads of Spec on the small configuration. A wrapped     *)
(* function fails only before the clock first ticks; from then on every    *)
(* forwarded call succeeds. Calls keep arriving, every thread goes on to   *)
(* its next statement, every wrapped function returns and time keeps       *)
(* passing: weak fairness of each of these steps.                          *)

LiveOutcomes == {Returned("success"), Raised("Exception")}

\* room for the call in the history as the call itself will find it
LiveRoom ==
    LET b == UpdateState(cb, now)
    IN  /\ b.state = CLOSED => Len(b.request_history) + InFlight < MaxHistory
        /\ b.half_open_test_count < MaxTestCount

LiveStart(p) == LiveRoom /\ CallStart(p)

LiveResolve(p, o) ==
    /\ IsException(o) => now = StartTime
    /\ FuncResolve(p, o)

NextLive ==
    \/ ReadState
    \/ \E p \in Threads : LiveStart(p)
    \/ \E p \in Threads : CallHalfOpen(p)
    \/ \E p \in Threads, o \in LiveOutcomes : LiveResolve(p, o)
    \/ \E p \in Threads : CallRecord(p)
    \/ Tick(TickSeconds)

SpecLive ==
    /\ Init
    /\ [][NextLive]_vars
    /\ \A p \in Threads :
         /\ WF_vars(LiveStart(p))
         /\ WF_vars(CallHalfOpen(p))
         /\ WF_vars(LiveResolve(p, Returned("success")))
         /\ WF_vars(CallRecord(p))
    /\ WF_vars(Tick(TickSeconds))

----------------------------------------------------------------------------
(* SpecDetect: _detect_abuse called request after request, either for      *)
(* searches (client a repeating the query q, with at most MaxOdd entries   *)
(* of another query or another client in the log) or for recommendations   *)
(* (client a going through the ids 1, 2, 3, ..., with at most MaxOdd       *)
(* entries of a request for id 1 again or of another client), while the    *)
(* clock ticks twice by half a minute; in an enumeration it ticks only     *)
(* while fewer than MaxEarly requests are logged.                          *)

MaxOdd == 1
MaxDetectTicks == 2
MaxEnumerated == 52
MaxEarly == 3

SearchOf(q) ==
    Request(<<"/search">>, Headers(NoneStr, NoneStr, <<"a">>, NoneStr), q)

RecommendOf(n) ==
    Request(<<"/recommend", "/">> \o Decimal(n),
            Headers(NoneStr, NoneStr, <<"a">>, NoneStr), NoneStr)

\* the entries of a log that are not client a's with the given item
Odd(log, item) ==
    Len(SelectSeq(log, LAMBDA e : e[1] # <<"a">> \/ e[3] # item))

\* the entries of a log that are not client a's or that repeat an item of
\* an earlier entry
Repeats(log) ==
    Cardinality({i \in 1..Len(log) :
                   \/ log[i][1] # <<"a">>
                   \/ \E j \in 1..(i - 1) : log[j][3] = log[i][3]})

\* one call of _detect_abuse(client_ip, endpoint, request)
DetectAbuse(ip, r) ==
    LET d == detect_abuse(mw, ip, Endpoint(r.path), r, now)
    IN  /\ mw' = d.m
        /\ ret' = [op |-> "detect_abuse", client_ip |-> ip,
                   endpoint |-> Endpoint(r.path), q |-> r.q, path |-> r.path,
                   t |-> now, flagged |-> d.flagged]
        /\ UNCHANGED <<cb, now, pc, fres, rnow, adm, probes, script,
                       cachevars, rl, rq, decisions, wiring>>

NextDetect ==
    \/ \E ip \in {<<"a">>, <<"b">>}, q \in {<<"q">>, <<"r">>, << >>} :
         /\ mw.product_history = << >>
         /\ Len(mw.query_history) < MaxAbuseChecks
         /\ DetectAbuse(ip, SearchOf(q))
         /\ Odd(mw'.query_history, hash_query(<<"q">>)) <= MaxOdd
    \/ \E ip \in {<<"a">>, <<"b">>} :
         \E n \in {1, Len(mw.product_history) + 1} :
            /\ mw.query_history = << >>
            /\ Len(mw.product_history) < MaxEnumerated
            /\ DetectAbuse(ip, RecommendOf(n))
            /\ Repeats(mw'.product_history) <= MaxOdd
    \/ /\ now < StartTime + MaxDetectTicks * TickSeconds
       /\ Len(mw.product_history) < MaxEarly
       /\ Tick(TickSeconds)

SpecDetect == Init /\ [][NextDetect]_vars

----------------------------------------------------------------------------
(* SpecEnum: client a, without an API key, requests /recommend/1,          *)
(* /recommend/2, ... through the middleware, one request after the other,  *)
(* with a store that answers every command; the clock ticks only while     *)
(* fewer than MaxEarly requests are answered.                              *)

NextEnum ==
    \/ \E ok \in BOOLEAN : startup_event(ok)
    \/ /\ mw.redis_client
       /\ Checks < MaxEnumerated
       /\ DispatchStart(1, RecommendOf(BagCardinality(decisions) + 1))
    \/ StoreStep(1, "ok")
    \/ /\ AllIdle
       /\ BagCardinality(decisions) < MaxEarly
       /\ now < StartTime + MaxLimitTicks * LimitTickSeconds
       /\ Tick(LimitTickSeconds)

SpecEnum == Init /\ [][NextEnum]_vars

----------------------------------------------------------------------------
(* Properties *)

\* a step that reads the breaker's state: the state property, get_metrics,
\* or the first line of call / call_async
AnyRead == ReadState \/ GetMetrics \/ \E p \in Threads : CallStart(p)

Elapsed == now - cb.opened_at

Rejected == ret.op = "call" /\ ret.invoked = 0
Forwarded == ret.op = "call" /\ ret.invoked = 1

\* C1: a call that starts while the breaker is OPEN and open_duration has
\* not elapsed since opened_at raises CircuitBreakerOpenError, the wrapped
\* function is not invoked and the breaker stays OPEN.
C1_OpenRejectsCalls ==
    [][\A p \in Threads :
         (cb.state = OPEN /\ Elapsed < cb.open_duration_seconds
             /\ CallStart(p))
         => /\ ret' = CallReturn(CircuitBreakerOpenError, 0, << >>)
            /\ pc'[p] = "idle"
            /\ cb'.state = OPEN]_vars

\* a call rejected by a breaker that a failed HALF_OPEN episode had re-opened
C1_Witness ==
    /\ Rejected
    /\ cb.state = OPEN
    /\ Elapsed < cb.open_duration_seconds
    /\ cb.half_open_success_count + cb.half_open_failure_count
          >= HalfOpenMinTests

\* failures/total >= failure_threshold over at least min_requests entries
ThresholdReached(h) ==
    LET failed == Len(SelectSeq(h, LAMBDA e : e[2] = FALSE))
    IN  /\ Len(h) >= cb.min_requests_for_threshold
        /\ failed * cb.failure_threshold[2] >= cb.failure_threshold[1] * Len(h)

C3_HalfOpenOnce ==
    [][/\ (cb.state = OPEN /\ cb'.state = HALF_OPEN)
          => /\ AnyRead
             /\ Elapsed >= cb.open_duration_seconds
             /\ cb'.half_open_test_count = 0
             /\ cb'.half_open_success_count = 0
             /\ cb'.half_open_failure_count = 0
       /\ (cb.state = OPEN /\ Elapsed >= cb.open_duration_seconds)
          => (cb'.state = HALF_OPEN \/ ~AnyRead)
       /\ cb.state = HALF_OPEN
          => \/ /\ cb'.state = HALF_OPEN
                /\ cb'.half_open_test_count = cb.half_open_test_count
                /\ cb'.half_open_success_count = cb.half_open_success_count
                /\ cb'.half_open_failure_count = cb.half_open_failure_count
             \/ ~AnyRead]_vars

C3_Witness ==
    /\ ret.op \in {"state", "get_metrics"}
    /\ cb.state = HALF_OPEN
    /\ cb.half_open_test_count > 0
    /\ cb.half_open_success_count + cb.half_open_failure_count > 0

\* C4: the breaker leaves HALF_OPEN exactly when the 5th result of a probe
\* of the episode is recorded: to CLOSED (opened_at None) iff at least 3 of
\* those 5 probes succeeded, otherwise to OPEN with opened_at = now.
C4_FifthProbeDecides ==
    /\ [][(cb.state = HALF_OPEN /\ cb'.state # HALF_OPEN)
          => /\ probes'[1] + probes'[2] = HalfOpenMinTests
             /\ cb'.state = CLOSED <=> probes'[1] >= HalfOpenMinSuccesses
             /\ cb'.state = CLOSED => cb'.opened_at = None
             /\ cb'.state = OPEN => cb'.opened_at = now]_vars
    /\ [](cb.state = HALF_OPEN => probes[1] + probes[2] < HalfOpenMinTests)

\* C5: with one caller at a time, a call that finds the breaker HALF_OPEN
\* is forwarded iff the running count of half-open calls,
\* this one included, is a multiple of int(1/half_open_test_percentage),
\* and is otherwise rejected with CircuitBreakerOpenError; so of two
\* consecutive calls of an episode with int(1/percentage) = 2 exactly one is
\* forwarded, and with percentage 0.1 a forwarded call is a 10th, 20th, ...
\* call of the episode (at most one in any 10 consecutive calls).
C5_RoundRobinProbes ==
    [][\A o \in FuncOutcomes :
         (UpdateState(cb, now).state = HALF_OPEN /\ SeqCall(o))
         => LET n == UpdateState(cb, now).half_open_test_count + 1
                every == cb.half_open_test_percentage[2]
                            \div cb.half_open_test_percentage[1]
            IN  /\ ret'.invoked = 1 <=> n % every = 0
                /\ ret'.invoked = 0 => ret'.outcome = CircuitBreakerOpenError
                /\ cb'.half_open_test_count = n
                /\ (cb.state = HALF_OPEN /\ ret.op = "call" /\ every = 2)
                   => ret.invoked + ret'.invoked = 1]_vars

\* the 10th half-open call on the default configuration, forwarded
C5_Witness ==
    /\ Forwarded
    /\ cb.state = HALF_OPEN
    /\ TestEvery(cb) = 10
    /\ cb.half_open_test_count = 10

Transitions ==
    {<<CLOSED, OPEN>>, <<OPEN, HALF_OPEN>>,
     <<HALF_OPEN, CLOSED>>, <<HALF_OPEN, OPEN>>}

\* C6: the state is always one of CLOSED, OPEN, HALF_OPEN, and every step of
\* every interleaving that changes it follows CLOSED->OPEN, OPEN->HALF_OPEN,
\* HALF_OPEN->CLOSED or HALF_OPEN->OPEN.
C6_TransitionsOnly ==
    /\ [](cb.state \in CircuitState)
    /\ [][cb'.state # cb.state => <<cb.state, cb'.state>> \in Transitions]_vars

\* closed again after an episode, with a call of another thread in flight
C6_Witness ==
    /\ cb.state = CLOSED
    /\ cb.half_open_success_count >= HalfOpenMinSuccesses
    /\ \E p \in Threads : pc[p] = "exec"

\* C7: every call that was forwarded to the wrapped function ends with
\* exactly one recorded result, a success if the function returned and a
\* failure if it raised, and hands the function's outcome to its caller.
C7_OneResultPerCall ==
    Forwarded =>
        /\ ret.recorded = <<ret.outcome.kind = "return">>
        /\ ret.outcome \in FuncOutcomes

\* the value each CacheClient method documents for a miss or a failure
Fallback(op) ==
    IF op = "get" THEN PyNone
    ELSE IF op = "delete" THEN PyInt(0)
    ELSE PyBool(FALSE)

\* C8: get, set, delete and exists never raise, whatever exception a Redis
\* command produces and whatever the breaker state, and return their
\* fallback (None, False, 0, False) when an exception ended their work.
\* Cancellation of the calling task is left aside.
C8_NeverRaises ==
    (ret.op \in CacheOps /\ ret.error # "CancelledError")
    => /\ ret.outcome.kind = "return"
       /\ ret.error # "" => ret.outcome = Returned(Fallback(ret.op))

\* C9: a get, set, delete or exists entered while the client's breaker is
\* OPEN and open_duration has not elapsed since opened_at returns its
\* fallback (None, False, 0, False), sends no command to Redis, and leaves
\* the keyspace and the OPEN state as they are.
C9_OpenDegrades ==
    [][(/\ ClientNow = "breaker"
        /\ cb.state = OPEN
        /\ Elapsed < cb.open_duration_seconds
        /\ ret'.op \in CacheOps)
       => /\ ret'.outcome = Returned(Fallback(ret'.op))
          /\ ret'.calls = 0
          /\ store' = store
          /\ cb'.state = OPEN]_vars

\* exists, which has no state test of its own, entered on an OPEN breaker
\* with the pool up and the key present
C9_Witness ==
    /\ ret.op = "exists"
    /\ ret.entered = OPEN
    /\ ret.calls = 0
    /\ cb.state = OPEN
    /\ Elapsed < cb.open_duration_seconds
    /\ redis_pool = "up"
    /\ store[ret.key] # Absent

\* C10: with the pool up, the breaker CLOSED and Redis answering, a set that
\* returned True followed at once by a get of the same key that reached
\* Redis returns a value equal to the value set.
C10_RoundTrip ==
    [][(/\ ret.op = "set"
        /\ ret.outcome = Returned(PyBool(TRUE))
        /\ redis_pool = "up"
        /\ cb.state = CLOSED
        /\ ret'.op = "get"
        /\ ret'.key = ret.key
        /\ ret'.calls = 1
        /\ ret'.error = "")
       => ret'.outcome = Returned(ret.value)]_vars

\* C11: every command a CacheClient holding the breaker sends to Redis (GET,
\* SETEX, SCAN, DEL, EXISTS) goes through that breaker, so the breaker
\* records one result for each command sent. Cancellation of the calling
\* task is left aside.
C11_AllThroughBreaker ==
    (ret.op \in CacheOps /\ cache_client = "breaker"
        /\ ret.error # "CancelledError")
    => ret.recorded = ret.calls

\* C12: delete(pattern) returns the number of keys it removed from the
\* keyspace, also when a Redis error or a rejection by the breaker ends the
\* loop after some keys were deleted, and 0 when SCAN itself fails.
C12_DeleteCount ==
    [][(ret'.op = "delete" /\ ret'.outcome.kind = "return")
       => ret'.outcome.val =
             PyInt(Cardinality({k \in Keys : store[k] # Absent
                                              /\ store'[k] = Absent}))]_vars

\* C13: while there is no pool (never initialized, initialization
\* failed, or closed) get, set, delete and exists return None, False, 0 and
\* False without raising, and the rate limiter admits the request with
\* remaining = limit.
C13_NotConfigured ==
    [][NotConfigured =>
         /\ ret'.op \in CacheOps
               => ret'.outcome = Returned(Fallback(ret'.op))
         /\ (ret'.op = "dispatch"
               /\ ret'.via \in {"no_redis", "counted", "fail_open"})
               => /\ ret'.status = 200
                  /\ ret'.remaining = ret'.limit]_vars

\* the finished checks of one (endpoint, identifier)
KeyChecks(endpoint, identifier) ==
    {e \in BagToSet(decisions) :
        e.endpoint = endpoint /\ e.identifier = identifier}

\* C14: with a healthy store, the n-th request of a fresh (identifier,
\* endpoint) within one window is admitted with remaining = limit - n while
\* n <= limit, and request number limit + 1 is rejected with Retry-After <=
\* window.  (n is counted over requests made one after the other at
\* distinct times, all of them counted by the store.)
C14_FirstLimitAdmitted ==
    (/\ ret.op = "dispatch"
     /\ ret.via = "counted"
     /\ AllIdle
     /\ \A e \in KeyChecks(ret.endpoint, ret.identifier) :
           /\ e.via = "counted"
           /\ CopiesIn(e, decisions) = 1
           /\ e.t > ret.t - ret.window)
    => LET n == Cardinality(KeyChecks(ret.endpoint, ret.identifier))
       IN  /\ n <= ret.limit
                => /\ ret.status = 200
                   /\ ret.allowed
                   /\ ret.remaining = ret.limit - n
           /\ n = ret.limit + 1
                => /\ ret.status = 429
                   /\ ret.retry_after <= ret.window

\* C15: with a healthy store a check adds the current timestamp to the key's
\* set, removes the members not newer than now - window, counts what is
\* left, sets the key's expiry to window seconds from now, and returns
\* allowed = (count < limit), remaining = max(0, limit - count), reset_at =
\* now + window; remaining lies in 0..limit; count 5 of limit 100 is allowed
\* with remaining 95 and count 150 is rejected with remaining 0.
C15_SlidingWindow ==
    /\ [][\A p \in Tasks :
            (rq[p] # Idle /\ rq'[p] # rq[p] /\ ret'.op = "none")
            => LET tk  == rq[p]
                   key == <<tk.endpoint, tk.identifier>>
               IN  /\ tk.pc = "zadd"
                        => /\ <<key, tk.now>> \in rl'.z
                           /\ Live(rl, now).z \subseteq rl'.z
                   /\ tk.pc = "zremrangebyscore"
                        => /\ \A m \in {x \in rl'.z : x[1] = key} :
                                 m[2] > tk.now - tk.window
                           /\ \A m \in Live(rl, now).z :
                                 (m[1] # key \/ m[2] > tk.now - tk.window)
                                    => m \in rl'.z
                           /\ rl'.z \subseteq rl.z
                   /\ tk.pc = "zcard"
                        => /\ rq'[p].count = Cardinality({m \in rl'.z : m[1] = key})
                           /\ rl'.z = Live(rl, now).z]_vars
    /\ [][\A p \in Tasks :
            (rq[p] # Idle /\ rq'[p] = Idle /\ ret'.op = "dispatch"
               /\ ret'.via = "counted")
            => LET tk  == rq[p]
                   key == <<tk.endpoint, tk.identifier>>
               IN  /\ <<key, now + tk.window>> \in rl'.ttl
                   /\ rl'.z = Live(rl, now).z
                   /\ ret'.count = tk.count
                   /\ ret'.allowed = (tk.count < tk.limit)
                   /\ ret'.status = IF tk.count < tk.limit THEN 200 ELSE 429
                   /\ ret'.remaining =
                         IF tk.limit - tk.count > 0 THEN tk.limit - tk.count
                                                    ELSE 0
                   /\ ret'.remaining \in 0..tk.limit
                   /\ ret'.reset_time = now + tk.window]_vars
    /\ [](LET r5 == CheckResult(5, 100, 60, now)
              r150 == CheckResult(150, 100, 60, now)
          IN  /\ r5.allowed /\ r5.remaining = 95
              /\ ~r150.allowed /\ r150.remaining = 0)

\* a check made exactly one window after an earlier one of the same key:
\* the earlier member is pruned and the two that are left reach the limit
C15_Witness ==
    /\ ret.op = "dispatch"
    /\ ret.via = "counted"
    /\ ret.count = ret.limit
    /\ ret.remaining = 0
    /\ ret.status = 429
    /\ \E e \in KeyChecks(ret.endpoint, ret.identifier) :
          e.t = ret.t - ret.window /\ e.via = "counted"
    /\ Cardinality(KeyChecks(ret.endpoint, ret.identifier)) = 3

\* the number of requests of e's key that the count admitted in the window
\* that ends with e
AdmittedInWindow(e) ==
    LET B == [x \in {y \in BagToSet(decisions) :
                       /\ y.endpoint = e.endpoint
                       /\ y.identifier = e.identifier
                       /\ y.via = "counted"
                       /\ y.status = 200
                       /\ e.t - e.window < y.t
                       /\ y.t <= e.t} |-> CopiesIn(x, decisions)]
    IN  BagCardinality(B)

\* C16: for every (identifier, endpoint) that is neither whitelisted nor
\* blacklisted, the number of requests admitted within any window-second
\* lookback is at most limit, whatever the sequence and interleaving of
\* requests.  (Stated for the requests the count itself admitted, with no
\* store failure among them.)
C16_AtMostLimit ==
    \A e \in BagToSet(decisions) :
        (e.via = "counted" /\ e.status = 200) => AdmittedInWindow(e) <= e.limit

\* C17: if the add, the prune, the count or the expire raises, the check
\* fails open: allowed, remaining = limit, reset_at = now + window; the
\* request goes on to the handler and the caller sees neither an error nor
\* a 429.
C17_FailOpen ==
    [][\A p \in Tasks, so \in LimitOutcomes \ {"ok"} :
         (rq[p] # Idle /\ StoreStep(p, so))
         => /\ ret'.op = "dispatch"
            /\ ret'.status = 200
            /\ ret'.allowed
            /\ ret'.remaining = rq[p].limit
            /\ ret'.reset_time = now + rq[p].window
            /\ rq'[p] = Idle
            /\ rl' = rl]_vars

\* the count raises after the add and the prune went through, for a key
\* that has reached its limit
C17_Witness ==
    /\ ret.op = "dispatch"
    /\ ret.via = "fail_open"
    /\ ret.calls = 3
    /\ ret.status = 200
    /\ ZCard(rl, <<ret.endpoint, ret.identifier>>) >= ret.limit

\* C18: a request whose client IP or API key is blacklisted is rejected with
\* 403 and no store command runs for it, also when the identifier is
\* whitelisted as well or the endpoint is not a rate-limited one.
C18_BlacklistFirst ==
    (/\ ret.op = "dispatch"
     /\ (ret.client_ip \in mw.blacklist \/ ret.api_key \in mw.blacklist))
    => /\ ret.status = 403
       /\ ret.calls = 0

\* C19: a request to a limited endpoint whose client IP or API key is
\* whitelisted and not blacklisted is admitted however many requests the
\* identifier has sent, and nothing else is done for it: no store command
\* runs and no abuse log is updated.
C19_WhitelistSkips ==
    [][(/\ ret'.op = "dispatch"
        /\ ret'.endpoint \in DOMAIN RATE_LIMITS
        /\ (ret'.client_ip \in mw.whitelist \/ ret'.api_key \in mw.whitelist)
        /\ ~(ret'.client_ip \in mw.blacklist \/ ret'.api_key \in mw.blacklist))
       => /\ ret'.status = 200
          /\ ret'.calls = 0
          /\ rl' = rl
          /\ mw' = mw
          /\ rq' = rq
          /\ decisions' = decisions]_vars

\* a whitelisted API key is admitted while one more counted request of its
\* key would be rejected
C19_Witness ==
    /\ ret.op = "dispatch"
    /\ ret.via = "whitelist"
    /\ ret.status = 200
    /\ NonEmpty(ret.api_key)
    /\ ret.api_key \in mw.whitelist
    /\ ZCard(rl, <<ret.endpoint, ret.identifier>>) >= ret.limit - 1
    /\ ZCard(rl, <<ret.endpoint, ret.identifier>>) > 0

\* auth is `<scheme> <token>` with scheme Bearer or ApiKey (in any letter
\* case) and a token that is not empty
HasKeyForm(auth, token) ==
    \E i \in 1..Len(auth) :
        /\ auth[i] = " "
        /\ Lower(SubSeq(auth, 1, i - 1)) \in Schemes
        /\ token = SubSeq(auth, i + 1, Len(auth))
        /\ token # << >>

\* x is s without the spaces it starts and ends with
IsTrimmed(x, s) ==
    /\ x = << >> \/ (x[1] # " " /\ x[Len(x)] # " ")
    /\ \E i \in 0..Len(s) :
          /\ i + Len(x) <= Len(s)
          /\ SubSeq(s, i + 1, i + Len(x)) = x
          /\ \A k \in (1..i) \cup ((i + Len(x) + 1)..Len(s)) : s[k] = " "

\* x is the first of the comma-separated entries of s
FirstEntry(x, s) ==
    \E n \in 0..Len(s) :
        /\ n = Len(s) \/ s[n + 1] = ","
        /\ \A k \in 1..n : s[k] # ","
        /\ IsTrimmed(x, SubSeq(s, 1, n))

\* C20: the identifier is the API key when Authorization is `Bearer <token>`
\* or `ApiKey <token>`, and the endpoint's api_key limits apply; otherwise
\* it is the client IP: the first entry of X-Forwarded-For if present, else
\* X-Real-IP, else the peer address, else "unknown", and the ip limits
\* apply.  (A header with an empty value counts as absent.)
C20_Identifier ==
    ret.op = "identify"
    => LET r   == ret.request
           tk  == ret.task
           lim == RATE_LIMITS[tk.endpoint]
       IN  IF \E i \in 1..Len(r.auth) :
                 HasKeyForm(r.auth, SubSeq(r.auth, i + 1, Len(r.auth)))
           THEN /\ HasKeyForm(r.auth, tk.identifier)
                /\ tk.limit_type = "api_key"
                /\ tk.limit = lim.api_key.limit
                /\ tk.window = lim.api_key.window
           ELSE /\ tk.limit_type = "ip"
                /\ tk.limit = lim.ip.limit
                /\ tk.window = lim.ip.window
                /\ IF NonEmpty(r.xff) THEN FirstEntry(tk.identifier, r.xff)
                   ELSE IF NonEmpty(r.real_ip)
                        THEN IsTrimmed(tk.identifier, r.real_ip)
                   ELSE IF r.client # NoneStr THEN tk.identifier = r.client
                   ELSE tk.identifier = Unknown

\* an ApiKey header wins over a forwarded address
C20_Witness ==
    /\ ret.op = "identify"
    /\ ret.request.auth = ApiKey \o <<" ", "t">>
    /\ ret.request.xff = <<" ", "a", " ", ",", "b">>
    /\ ret.task.identifier = <<"t">>
    /\ ret.task.client_ip = <<"a">>
    /\ ret.task.limit = RATE_LIMITS[ret.task.endpoint].api_key.limit

\* C23: when the wrapped call in flight is cancelled (call_async's await
\* raises asyncio.CancelledError), the breaker records a failure for it, as
\* it does for any other error.
C23_CancellationRecorded ==
    (Forwarded /\ ret.outcome = Raised("CancelledError"))
    => ret.recorded = <<FALSE>>

\* C24: get_metrics is a read-only snapshot: it drops the request_history
\* entries older than time_window and changes none of state, opened_at and
\* the half-open counters, and the values it returns are those of the
\* breaker at the time of the call.
C24_MetricsReadOnly ==
    [][ret'.op = "get_metrics"
       => /\ cb'.state = cb.state
          /\ cb'.opened_at = cb.opened_at
          /\ cb'.half_open_test_count = cb.half_open_test_count
          /\ cb'.half_open_success_count = cb.half_open_success_count
          /\ cb'.half_open_failure_count = cb.half_open_failure_count
          /\ cb'.request_history =
                SelectSeq(cb.request_history,
                          LAMBDA e : e[1] >= now - cb.time_window_seconds)
          /\ ret'.metrics.state = cb'.state
          /\ ret'.metrics.recent_requests = Len(cb'.request_history)
          /\ ret'.metrics.recent_failures = Failures(cb'.request_history)
          /\ ret'.metrics.opened_at = cb'.opened_at
          /\ ret'.metrics.half_open_tests = cb'.half_open_test_count
          /\ ret'.metrics.half_open_successes = cb'.half_open_success_count
          /\ ret'.metrics.half_open_failures = cb'.half_open_failure_count]_vars

\* C25: a CLOSED breaker is still CLOSED at a state read as long as the
\* failure rate in the window has not exceeded failure_threshold; with
\* failure_threshold 0.5 and min_requests_for_threshold 5, the read that
\* follows 3 successful and then 3 failing calls returns CLOSED.
C25_ClosedUpToThreshold ==
    /\ [][(/\ cb.state = CLOSED
           /\ ret'.op = "state"
           /\ Failures(cb'.request_history) * cb.failure_threshold[2]
                 <= cb.failure_threshold[1] * Len(cb'.request_history))
          => ret'.state = CLOSED]_vars
    /\ [](/\ ret.op = "state"
          /\ [i \in 1..Len(cb.request_history) |-> cb.request_history[i][2]]
                = <<TRUE, TRUE, TRUE, FALSE, FALSE, FALSE>>
          => ret.state = CLOSED)

\* C29: in every reachable state request_history holds no entry whose
\* timestamp is older than now - time_window.
C29_NoStaleEntries ==
    \A i \in 1..Len(cb.request_history) :
        cb.request_history[i][1] >= now - cb.time_window_seconds

\* C30: while the breaker is HALF_OPEN, a call that is not selected as a
\* probe is rejected at once and leaves the three half-open counters
\* (tests, successes, failures), request_history, state and opened_at as
\* they were.
C30_RejectedLeavesCounters ==
    [][\A p \in Threads :
         (/\ pc[p] = "half_open"
          /\ cb.state = HALF_OPEN
          /\ pc'[p] = "idle"
          /\ ret' = CallReturn(CircuitBreakerOpenError, 0, << >>))
         => /\ cb'.half_open_test_count = cb.half_open_test_count
            /\ cb'.half_open_success_count = cb.half_open_success_count
            /\ cb'.half_open_failure_count = cb.half_open_failure_count
            /\ cb'.request_history = cb.request_history
            /\ cb'.state = cb.state
            /\ cb'.opened_at = cb.opened_at]_vars

\* C28: the wrapped function runs while the caller does not hold the
\* breaker's lock; the lock is held only inside the state read, the
\* recording of a result and get_metrics, each of which gives it back in
\* its next step without waiting for anything; so while a wrapped call
\* hangs every other thread can read the state, be admitted or rejected and
\* record its result, and no thread takes the lock while it holds it.
C28_LockDiscipline ==
    /\ \A p \in Threads : pc[p] \notin LockedAt => cb.lock # p
    /\ cb.lock # None
         => /\ pc[cb.lock] \in LockedAt
            /\ ENABLED (LockedRead(cb.lock) \/ LockedRecord(cb.lock))
            /\ \A op \in {"state", "metrics", "call", "record"} :
                 ~ ENABLED LockAcquire(cb.lock, op)
    /\ \A p, q \in Threads :
         (pc[q] = "exec" /\ cb.lock \in {None, q})
         => /\ cb.lock = None
            /\ pc[p] = "idle"
                 => \A op \in {"state", "metrics", "call"} :
                       ENABLED LockAcquire(p, op)
            /\ pc[p] = "record" => ENABLED LockAcquire(p, "record")

\* one thread's wrapped call is still running while the other thread holds
\* the lock to record the result of its own call
C28_Witness ==
    /\ pc[1] = "exec"
    /\ pc[2] = "record_locked"
    /\ cb.lock = 2
    /\ now > StartTime

C27_ServedIsGlobal ==
    LET g == wiring.global
        black == Listed(g.blacklist, ret.client_ip, ret.api_key)
        white == Listed(g.whitelist, ret.client_ip, ret.api_key)
    IN  (ret.op = "dispatch" /\ ret.endpoint \in DOMAIN RATE_LIMITS) =>
            /\ black => ret.status = 403
            /\ (~black /\ white) => (ret.status = 200 /\ ret.via = "whitelist")
            /\ (~black /\ ~white /\ g.redis_client) =>
                   ret.via \in {"counted", "fail_open"}

\* C22: abuse detection never changes the outcome of a request: a request
\* that passed the rate-limit check is forwarded to the handler (200)
\* whether _detect_abuse flags it, does not flag it or raises inside, and
\* its rate-limit headers are those of the check alone: the limit of its
\* configuration, the remaining count and the reset time the check returned.
C22_AbuseNeverBlocks ==
    (ret.op = "dispatch" /\ ret.via \in {"no_redis", "fail_open", "counted"})
    => /\ ret.allowed = (ret.via = "counted" => ret.count < ret.limit)
       /\ ret.status = (IF ret.allowed THEN 200 ELSE 429)
       /\ ret.limit = RATE_LIMITS[ret.endpoint][ret.limit_type].limit
       /\ ret.remaining = (IF ret.via # "counted" THEN ret.limit
                           ELSE IF ret.limit > ret.count
                           THEN ret.limit - ret.count ELSE 0)
       /\ ret.reset_time = ret.t + ret.window

\* a request flagged for the repeated query was forwarded, after a request
\* whose detection raised before anything was logged
C22_Witness ==
    /\ ret.op = "dispatch"
    /\ ret.flagged
    /\ ret.status = 200
    /\ Len(mw.query_history) > ABUSE_THRESHOLDS.same_query
    /\ BagCardinality(decisions) > Len(mw.query_history)

\* C21: within one request to /search or /recommend the cache lookup starts
\* only once dispatch has finished its check and called the handler, the
\* computation only after the lookup returned a miss and the cache write
\* only after the computation; a request answered 429 or 403 reaches
\* neither the lookup nor the computation, and a hit is followed by
\* neither the computation nor the cache write.
C21_PipelineOrder ==
    [][/\ (ret'.op = "get" /\ ret' # ret)
            => (/\ rq[1] = Idle
                /\ ret.op = "dispatch"
                /\ ret.status = 200
                /\ ret'.key = CacheKeyOf(ret.endpoint))
       /\ ret'.op = "compute"
            => (/\ ret.op = "get"
                /\ ret.outcome = Returned(PyNone)
                /\ ret'.key = ret.key)
       /\ ret'.op = "set"
            => (/\ ret.op = "compute"
                /\ ret'.key = ret.key)
       /\ (ret.op = "dispatch" /\ ret.status \in {403, 429})
            => ret'.op \notin {"get", "compute", "set"}
       /\ rq[1] # Idle => ret'.op \notin {"get", "compute", "set"}
       /\ (ret.op = "get" /\ ret.outcome # Returned(PyNone))
            => ret'.op \notin {"compute", "set"}]_vars

\* a request that was counted and admitted missed the cache, computed its
\* results and wrote them to the cache
C21_Witness ==
    /\ ret.op = "set"
    /\ ret.outcome = Returned(PyBool(TRUE))
    /\ store[ret.key] # Absent
    /\ \E e \in BagToSet(decisions) : e.via = "counted" /\ e.status = 200
    /\ \E e \in BagToSet(decisions) : e.status = 429

\* C39: opened_at is None exactly when the breaker is CLOSED; a step into
\* OPEN sets opened_at to the time of that step, and while the breaker
\* stays OPEN or HALF_OPEN no other step changes it.
C39_OpenedAt ==
    /\ [](cb.opened_at = None <=> cb.state = CLOSED)
    /\ [][/\ (cb.state # OPEN /\ cb'.state = OPEN) => cb'.opened_at = now
          /\ (cb.state # CLOSED /\ cb'.state # CLOSED
              /\ ~(cb.state # OPEN /\ cb'.state = OPEN))
               => cb'.opened_at = cb.opened_at]_vars

\* the breaker was re-opened by a failed probe, later than it first opened
C39_Witness ==
    /\ cb.state = OPEN
    /\ ret.op = "call"
    /\ ret.recorded = <<FALSE>>
    /\ cb.half_open_failure_count >= 3
    /\ cb.opened_at = now
    /\ now >= StartTime + TickSeconds

\* C33: once the breaker has closed from HALF_OPEN it does not open again
\* unless a failing call is recorded after that: with every call after the
\* first opening succeeding, a breaker that has recovered (CLOSED, with the
\* successes of the episode that closed it still counted) never steps to
\* OPEN.
C33_NoReopenWithoutFailure ==
    [][(/\ cb.state = CLOSED
        /\ cb.half_open_success_count >= HalfOpenMinSuccesses)
       => cb'.state # OPEN]_vars

\* C34: the half-open counters count the results of the probes forwarded
\* during the current HALF_OPEN episode and nothing else: while the breaker
\* is HALF_OPEN its success and failure counts are the numbers of probes of
\* this episode that have succeeded and failed, and recording the result of
\* a call that is not a probe of this episode changes neither count.
C34_CountersAreProbes ==
    /\ [](cb.state = HALF_OPEN =>
            /\ cb.half_open_success_count = probes[1]
            /\ cb.half_open_failure_count = probes[2])
    /\ [][\A p \in Threads :
            (pc[p] = "record" /\ pc'[p] = "idle"
             /\ (adm[p] = None \/ adm[p] # cb.opened_at
                 \/ cb.state # HALF_OPEN))
            => /\ cb'.half_open_success_count = cb.half_open_success_count
               /\ cb'.half_open_failure_count = cb.half_open_failure_count]_vars

\* C35: under any interleaving a call is rejected with
\* CircuitBreakerOpenError only while the breaker is OPEN or HALF_OPEN: in
\* the state a rejection leaves, the breaker is not CLOSED.
C35_RejectedOnlyWhenNotClosed ==
    (ret.op = "call" /\ ret.invoked = 0)
    => (ret.outcome = CircuitBreakerOpenError /\ cb.state \in {OPEN, HALF_OPEN})

\* C36: recovery is live: when from some point on every forwarded call
\* succeeds, calls keep arriving and each resolves, a breaker that is OPEN
\* eventually becomes CLOSED and from some point on stays CLOSED.
C36_RecoveryIsLive == (cb.state = OPEN) ~> [](cb.state = CLOSED)

\* the breaker has recovered at the last tick and records successes again
C36_Witness ==
    /\ cb.state = CLOSED
    /\ cb.half_open_success_count >= HalfOpenMinSuccesses
    /\ cb.request_history # << >>
    /\ Failures(cb.request_history) = 0
    /\ now = StartTime + MaxTicks * TickSeconds

\* C31: a /search request of a client IP that carries a query q is flagged
\* exactly when that IP's log entries younger than 60 s that carry hash(q),
\* the current request included, are more than 20 (the 21st identical query
\* within 60 s and every one after it); after the request the IP's log is
\* its entries younger than 60 s followed by <<now, hash(q)>>, and the
\* entries of other IPs are untouched.
C31_SameQueryFlag ==
    [][(now' = now /\ ret'.op = "detect_abuse" /\ ret'.endpoint = "/search"
        /\ NonEmpty(ret'.q)) =>
         LET ip == ret'.client_ip
             own(log) == SelectSeq(log, LAMBDA e : e[1] = ip)
             kept == SelectSeq(own(mw.query_history),
                               LAMBDA e : now - e[2] < 60)
             same == Len(SelectSeq(kept,
                         LAMBDA e : e[3] = hash_query(ret'.q))) + 1
         IN  /\ ret'.flagged <=> same > 20
             /\ own(mw'.query_history)
                  = Append(kept, <<ip, now, hash_query(ret'.q)>>)
             /\ \A i \in 1..Len(mw'.query_history) :
                  mw'.query_history[i][1] = ip =>
                     now - mw'.query_history[i][2] < 60
             /\ SelectSeq(mw'.query_history, LAMBDA e : e[1] # ip)
                  = SelectSeq(mw.query_history, LAMBDA e : e[1] # ip)
             /\ mw'.product_history = mw.product_history]_vars

\* the 21st identical query of a minute is flagged a minute after the
\* client's first request, whose entry is gone
C31_Witness ==
    /\ ret.op = "detect_abuse"
    /\ ret.endpoint = "/search"
    /\ ret.flagged
    /\ ret.t = StartTime + 2 * TickSeconds
    /\ \E i \in 1..Len(mw.query_history) :
         mw.query_history[i] = <<ret.client_ip, StartTime + TickSeconds,
                                 hash_query(ret.q)>>
    /\ Len(SelectSeq(mw.query_history,
                     LAMBDA e : e[1] = ret.client_ip
                                /\ e[3] = hash_query(ret.q))) = 21

\* C32: a request of a client IP to /recommend/{id} is flagged exactly when
\* the ids of that IP's log entries younger than 60 s, together with the id
\* of the current request, are more than 50 distinct values; after the
\* request the IP's log is its entries younger than 60 s followed by
\* <<now, id>>.
C32_EnumerationFlag ==
    [][(now' = now /\ ret'.op = "detect_abuse"
        /\ ret'.endpoint = "/recommend") =>
         LET ip == ret'.client_ip
             own(log) == SelectSeq(log, LAMBDA e : e[1] = ip)
             kept == SelectSeq(own(mw.product_history),
                               LAMBDA e : now - e[2] < 60)
         IN  \E n \in 1..(MaxEnumerated + 1) :
               /\ ret'.path = <<"/recommend", "/">> \o Decimal(n)
               /\ ret'.flagged <=>
                    Cardinality({kept[i][3] : i \in 1..Len(kept)}
                                \cup {Decimal(n)}) > 50
               /\ own(mw'.product_history)
                    = Append(kept, <<ip, now, Decimal(n)>>)
               /\ SelectSeq(mw'.product_history, LAMBDA e : e[1] # ip)
                    = SelectSeq(mw.product_history, LAMBDA e : e[1] # ip)
               /\ mw'.query_history = mw.query_history]_vars

\* the 51st distinct id of a minute is flagged, with a repeated id or another
\* client's request in the log
C32_Witness ==
    /\ ret.op = "detect_abuse"
    /\ ret.endpoint = "/recommend"
    /\ ret.flagged
    /\ Len(mw.product_history) = 52
    /\ Cardinality({mw.product_history[i][3] :
          i \in {j \in 1..Len(mw.product_history) :
                   mw.product_history[j][1] = ret.client_ip}}) = 51

\* the number of checks of e's key, of any outcome, that the store counted
\* in the window that ends with e, e's own request left out
SentBefore(e) ==
    LET B == [x \in {y \in BagToSet(decisions) :
                       /\ y.endpoint = e.endpoint
                       /\ y.identifier = e.identifier
                       /\ y.via = "counted"
                       /\ e.t - e.window < y.t
                       /\ y.t <= e.t} |-> CopiesIn(x, decisions)]
    IN  BagCardinality(B) - 1

\* C37: rejected requests count against the window: an identifier whose
\* requests of any outcome in the trailing window already number limit or
\* more is rejected, that is, a request is admitted only when fewer than
\* limit requests of its identifier, admitted or rejected, were made in the
\* window before it.  (Stated with a store that answers every command of
\* the identifier's checks.)
C37_RejectedCount ==
    \A e \in BagToSet(decisions) :
        (/\ e.via = "counted"
         /\ e.status = 200
         /\ \A y \in KeyChecks(e.endpoint, e.identifier) : y.via = "counted")
        => SentBefore(e) < e.limit

\* C38: with a store that answers, a request of a client IP that carries no
\* API key and is not whitelisted is never flagged for enumeration: the
\* /recommend limit by IP keeps the requests admitted in a window below the
\* threshold of more than 50 distinct ids.
C38_NeverEnumeration ==
    (/\ ret.op = "dispatch"
     /\ ret.endpoint = "/recommend"
     /\ ret.via = "counted"
     /\ ret.limit_type = "ip"
     /\ ~ret.whitelisted
     /\ \A e \in BagToSet(decisions) : e.via = "counted")
    => ~ret.flagged

====
